---- MODULE Spec2Model ----
(***************************************************************************)
(* A model of starlight: the module-load cache (cache.get, doLoad,         *)
(* cycleCheck), the live views GoMap, GoSlice and GoStruct that expose Go  *)
(* maps, slices and structs to Starlark scripts, the script runner         *)
(* (Starlight.Run, Forget, Reset), the conversions ToValue and FromValue,  *)
(* the function wrapper MakeStarFn and GoSlice.Slice.                      *)
(***************************************************************************)
EXTENDS Integers, Sequences, FiniteSets, TLC

(***************************************************************************)
(* Bounds of the model.                                                    *)
(***************************************************************************)
\* top-level Load calls issued in all
MaxCalls == 2

MaxWalks == 1

\* Run, Forget and Reset calls issued against the two mutexes
MaxOps == 3
\* Forget/Reset calls issued on the cache
MaxEvict == 1
\* entry objects the cache allocates
MaxEntries == 3

\* calls of readFile made by Run in all
MaxReads == 2
\* changes made to the files on disk
MaxEdits == 1

\* iterators open at the same time
MaxIters == 1
\* key/value pairs one update call carries, elements one extend call carries
MaxItems == 1
\* length a slice is grown to
MaxLen == 3

\* parameters a wrapped function declares
MaxParams == 2
\* positional arguments a call passes
MaxArgs == 3

\* largest step of a slice expression, either way
MaxStep == 2
\* writes made through the source and the result of a Slice call
MaxWrites == 1

(***************************************************************************)
(* The module cache.                                                       *)
(***************************************************************************)
VARIABLES
    cache,      \* c.cache: module name -> entry id (0 is a nil *entry)
    entry,      \* the heap of *entry objects, by id
    waitsFor,   \* cc.waitsFor of each goroutine's current cycleChecker
    calls,      \* top-level Load calls started by each goroutine
    stack,      \* per goroutine: the active cache.get frames, innermost last
    loadCount,  \* per module: executions of doLoad (file reads) so far
    evictions,  \* Forget/Reset calls so far
    orphans,    \* history: the entries removed from the map before they were ready
                \* that a call still points to
    returned    \* results handed back by top-level Load calls

cacheVars == <<cache, entry, waitsFor, calls, stack, loadCount, evictions, orphans, returned>>

(***************************************************************************)
(* The views.                                                              *)
(***************************************************************************)
VARIABLES
    hosted,     \* which native value the host handed to the script
    hostMap,    \* the host's Go map (a map[int]int)
    hostArr,    \* the backing array of the host's slice (a []int), all cap cells
    hostLen,    \* the length of the host's slice
    hdr,        \* per GoSlice: the slice header in g.v
    hostStruct, \* the host's struct
    view,       \* per view: numIt and frozen
    iters,      \* the iterators that are open (Done not yet called)
    lastOp      \* the last call made through a view, and how it ended

viewVars == <<hosted, hostMap, hostArr, hostLen, hdr, hostStruct, view, iters, lastOp>>

(***************************************************************************)
(* The runner.                                                             *)
(***************************************************************************)
VARIABLES
    scripts,    \* s.scripts: file name -> compiled program (0 is no program)
    disk,       \* the content of each file on disk, as a version number
    run,        \* per goroutine: its Run call in flight
    reads,      \* per file: calls of s.readFile made by Run so far
    edits,      \* changes the host has made to files so far
    evicted,    \* files whose Forget or Reset has returned, no Run begun since
    stale,      \* history: the Run calls in flight (by goroutine) and the programs of
                \* s.scripts (by file) whose content was read before a Forget or
                \* Reset of the file that has returned since
    lastRun     \* the Run call that finished last

runVars == <<scripts, disk, run, reads, edits, evicted, stale, lastRun>>

(***************************************************************************)
(* The conversions between Go values and Starlark values.                 *)
(***************************************************************************)
VARIABLES
    conv        \* the last conversion or wrapped-function call, and its outcome

convVars == <<conv>>

(***************************************************************************)
(* Slices of a GoSlice.                                                    *)
(***************************************************************************)
VARIABLES
    arrays,     \* the backing arrays allocated so far (each a [N]int)
    slices,     \* the source GoSlice and the GoSlice that Slice returned
    sliceOp     \* the last call of Slice or SetIndex, and how it ended

sliceVars == <<arrays, slices, sliceOp>>

(***************************************************************************)
(* The two mutexes: Run, Forget, Reset and the loads of a running script,  *)
(* one lock or unlock at a time.                                           *)
(***************************************************************************)
VARIABLES
    mu,         \* Starlight.mu: the goroutine that holds it, or Free
    cacheMu,    \* cache.cacheMu: the goroutine that holds it, or Free
    thr,        \* per goroutine: the call it is in, where it is, its load stack
    progs,      \* the filenames s.scripts holds a program for
    cmap,       \* cache.cache as the mutex protects it: module -> entry or 0
    ent,        \* the entries allocated: module and whether ready is closed
    ops         \* calls begun so far

lockVars == <<mu, cacheMu, thr, progs, cmap, ent, ops>>

vars == <<cacheVars, viewVars, runVars, convVars, sliceVars, lockVars>>

\* the host's goroutines, and the ones that call in when two callers do
Goroutines == {"g1", "g2", "g3"}

Callers == {"g1", "g2"}

\* The scripts on disk: "a" and "b" load each other, "s" loads itself,
\* "d" loads the leaf "c", "t" loads "c" and then "d"; "x" has no file.
Modules == {"a", "b", "s", "c", "d", "t", "x"}

Files == {"a", "b", "s", "c", "d", "t"}

LoadsOf(m) ==
    CASE m = "a" -> <<"b">>
      [] m = "b" -> <<"a">>
      [] m = "s" -> <<"s">>
      [] m = "d" -> <<"c">>
      [] m = "t" -> <<"c", "d">>
      [] OTHER   -> <<>>

\* the modules the load statements of m name
Deps(m) == {LoadsOf(m)[i] : i \in 1..Len(LoadsOf(m))}

NilEntry == 0

\* a cycleChecker is allocated by each top-level Load: (goroutine, call number)
NoCC == <<"none", 0>>

NoErr == <<>>

NoGlobals == <<>>

CycleErr == <<"cycle in load graph">>

FileErr == <<"no such file">>

\* ExecFile reports a failed load statement as an error naming the module
Wrap(dep, err) == <<dep>> \o err

IsCycleError(err) == err # NoErr /\ err[Len(err)] = CycleErr[1]

\* the cycleChecker of goroutine g's current top-level call
Me(g) == <<g, calls[g]>>

\* atomic.LoadPointer(&cc.waitsFor): a checker of a finished call waits for nothing
LoadWaitsFor(cc) ==
    IF cc[1] \in Goroutines /\ cc[2] = calls[cc[1]] THEN waitsFor[cc[1]] ELSE NilEntry

RECURSIVE SumOver(_, _)
SumOver(f, S) ==
    IF S = {} THEN 0
    ELSE LET x == CHOOSE y \in S : TRUE IN f[x] + SumOver(f, S \ {x})

Top(g) == stack[g][Len(stack[g])]

Idle(g) == stack[g] = <<>>

SetTop(g, f) == [stack EXCEPT ![g] = [@ EXCEPT ![Len(@)] = f]]

NewEntry == [module |-> "", owner |-> NoCC, globals |-> NoGlobals, err |-> NoErr, ready |-> FALSE]

CacheInit ==
    /\ cache = [m \in Modules |-> NilEntry]
    /\ entry = <<>>
    /\ waitsFor = [g \in Goroutines |-> NilEntry]
    /\ calls = [g \in Goroutines |-> 0]
    /\ stack = [g \in Goroutines |-> <<>>]
    /\ loadCount = [m \in Modules |-> 0]
    /\ evictions = 0
    /\ orphans = {}
    /\ returned = {}

\* Frames carry two ghost fields: e is the entry the lookup produced, found
\* tells how the lookup found it ("new", "loading" or "ready").

\* GetLock without duplicate suppression: every request inserts a new entry.
GetLockNoDedup(g, m, st) ==
    /\ Len(entry) < MaxEntries
    /\ entry' = Append(entry, [NewEntry EXCEPT !.module = m])
    /\ cache' = [cache EXCEPT ![m] = Len(entry) + 1]
    /\ stack' = [stack EXCEPT ![g] = Append(st,
           [module |-> m, pc |-> "setOwner", e |-> Len(entry) + 1,
            walk |-> NilEntry, wcc |-> NoCC, ip |-> 0,
            found |-> IF cache[m] = NilEntry THEN "new"
                      ELSE IF entry[cache[m]].ready THEN "ready" ELSE "loading"])]

\* GetLock that loads again into an entry that is already ready.
GetLockReload(g, m, st) ==
    IF cache[m] # NilEntry
    THEN /\ stack' = [stack EXCEPT ![g] = Append(st,
                [module |-> m,
                 pc |-> IF entry[cache[m]].ready THEN "setOwner" ELSE "checkOwner",
                 e |-> cache[m], walk |-> cache[m], wcc |-> NoCC, ip |-> 0,
                 found |-> IF entry[cache[m]].ready THEN "ready" ELSE "loading"])]
         /\ UNCHANGED <<cache, entry>>
    ELSE /\ Len(entry) < MaxEntries
         /\ entry' = Append(entry, [NewEntry EXCEPT !.module = m])
         /\ cache' = [cache EXCEPT ![m] = Len(entry) + 1]
         /\ stack' = [stack EXCEPT ![g] = Append(st,
                [module |-> m, pc |-> "setOwner", e |-> Len(entry) + 1,
                 walk |-> NilEntry, wcc |-> NoCC, ip |-> 0, found |-> "new"])]

\* cache.get up to the release of cacheMu: look the module up, or insert a
\* fresh entry.  st is the goroutine's stack below the new frame.
GetLock(g, m, st) ==
    IF cache[m] # NilEntry
    THEN /\ stack' = [stack EXCEPT ![g] = Append(st,
                [module |-> m, pc |-> "checkOwner", e |-> cache[m],
                 walk |-> cache[m], wcc |-> NoCC, ip |-> 0,
                 found |-> IF entry[cache[m]].ready THEN "ready" ELSE "loading"])]
         /\ UNCHANGED <<cache, entry>>
    ELSE /\ Len(entry) < MaxEntries
         /\ entry' = Append(entry, [NewEntry EXCEPT !.module = m])
         /\ cache' = [cache EXCEPT ![m] = Len(entry) + 1]
         /\ stack' = [stack EXCEPT ![g] = Append(st,
                [module |-> m, pc |-> "setOwner", e |-> Len(entry) + 1,
                 walk |-> NilEntry, wcc |-> NoCC, ip |-> 0, found |-> "new"])]

\* cache.Load: a top-level call with a new cycleChecker
Load(g, m) ==
    /\ Idle(g)
    /\ IF g \in Callers THEN SumOver(calls, Callers) < MaxCalls ELSE calls[g] < MaxWalks
    /\ calls' = [calls EXCEPT ![g] = @ + 1]
    /\ GetLock(g, m, <<>>)
    /\ UNCHANGED <<waitsFor, loadCount, evictions, orphans, returned, viewVars, runVars, convVars, sliceVars, lockVars>>

\* the orphans that a frame other than the top frame of g still points to
StillHeld(g) ==
    {e \in orphans :
        \E h \in Goroutines : \E i \in 1..Len(stack[h]) :
            (h # g \/ i < Len(stack[g])) /\ stack[h][i].e = e}

\* get returns (globals, err) to its caller: to the host for a top-level
\* call, to ExecFile's load statement otherwise.  eh is the entry heap as
\* the returning frame leaves it.
ReturnFrom(g, eh, globals, err) ==
    LET st == stack[g]
        n  == Len(st)
        f  == st[n]
    IN /\ orphans' = StillHeld(g)
       /\ IF n = 1
          THEN /\ stack' = [stack EXCEPT ![g] = <<>>]
               /\ returned' = returned \cup {[module |-> f.module, e |-> f.e, found |-> f.found,
                                                globals |-> globals, err |-> err]}
               /\ entry' = eh
          ELSE LET caller == st[n - 1] IN
               /\ returned' = returned
               /\ IF err # NoErr
                  THEN \* the load statement fails, so does ExecFile, and doLoad's
                       \* result is what the caller stores in its entry
                       /\ entry' = [eh EXCEPT ![caller.e].globals = NoGlobals,
                                              ![caller.e].err = Wrap(f.module, err)]
                       /\ stack' = [stack EXCEPT ![g] =
                               Append(SubSeq(st, 1, n - 2), [caller EXCEPT !.pc = "clearOwner"])]
                  ELSE /\ entry' = eh
                       /\ stack' = [stack EXCEPT ![g] =
                               Append(SubSeq(st, 1, n - 2), [caller EXCEPT !.ip = @ + 1])]

\* CheckOwner that never recognises the calling checker.
CheckOwnerBlind(g) ==
    /\ ~Idle(g)
    /\ Top(g).pc = "checkOwner"
    /\ LET f  == Top(g)
           cc == entry[f.walk].owner
       IN IF cc = NoCC
          THEN stack' = SetTop(g, [f EXCEPT !.pc = "setWaitsFor"])
          ELSE stack' = SetTop(g, [f EXCEPT !.pc = "checkWaits", !.wcc = cc])
    /\ UNCHANGED <<cache, entry, waitsFor, calls, loadCount, evictions, orphans, returned, viewVars, runVars, convVars, sliceVars, lockVars>>

\* cycleCheck, first half of an iteration: cc := e.owner
CheckOwner(g) ==
    /\ ~Idle(g)
    /\ Top(g).pc = "checkOwner"
    /\ LET f  == Top(g)
           cc == entry[f.walk].owner
       IN IF cc = NoCC
          THEN /\ stack' = SetTop(g, [f EXCEPT !.pc = "setWaitsFor"])
               /\ UNCHANGED <<entry, orphans, returned>>
          ELSE IF cc = Me(g)
          THEN ReturnFrom(g, entry, NoGlobals, CycleErr)
          ELSE /\ stack' = SetTop(g, [f EXCEPT !.pc = "checkWaits", !.wcc = cc])
               /\ UNCHANGED <<entry, orphans, returned>>
    /\ UNCHANGED <<cache, waitsFor, calls, loadCount, evictions, viewVars, runVars, convVars, sliceVars, lockVars>>

\* cycleCheck, second half of an iteration: e = cc.waitsFor
CheckWaits(g) ==
    /\ ~Idle(g)
    /\ Top(g).pc = "checkWaits"
    /\ LET f == Top(g)
           w == LoadWaitsFor(f.wcc)
       IN stack' = SetTop(g, [f EXCEPT !.walk = w, !.wcc = NoCC,
                                      !.pc = IF w = NilEntry THEN "setWaitsFor" ELSE "checkOwner"])
    /\ UNCHANGED <<cache, entry, waitsFor, calls, loadCount, evictions, orphans, returned, viewVars, runVars, convVars, sliceVars, lockVars>>

\* cc.setWaitsFor(e)
SetWaitsFor(g) ==
    /\ ~Idle(g)
    /\ Top(g).pc = "setWaitsFor"
    /\ waitsFor' = [waitsFor EXCEPT ![g] = Top(g).e]
    /\ stack' = SetTop(g, [Top(g) EXCEPT !.pc = "wait"])
    /\ UNCHANGED <<cache, entry, calls, loadCount, evictions, orphans, returned, viewVars, runVars, convVars, sliceVars, lockVars>>

\* <-e.ready
WaitReady(g) ==
    /\ ~Idle(g)
    /\ Top(g).pc = "wait"
    /\ entry[Top(g).e].ready
    /\ stack' = SetTop(g, [Top(g) EXCEPT !.pc = "clearWaitsFor"])
    /\ UNCHANGED <<cache, entry, waitsFor, calls, loadCount, evictions, orphans, returned, viewVars, runVars, convVars, sliceVars, lockVars>>

\* cc.setWaitsFor(nil); return e.globals, e.err
ClearWaitsFor(g) ==
    /\ ~Idle(g)
    /\ Top(g).pc = "clearWaitsFor"
    /\ waitsFor' = [waitsFor EXCEPT ![g] = NilEntry]
    /\ ReturnFrom(g, entry, entry[Top(g).e].globals, entry[Top(g).e].err)
    /\ UNCHANGED <<cache, calls, loadCount, evictions, viewVars, runVars, convVars, sliceVars, lockVars>>

\* e.setOwner(cc), then doLoad up to c.readFile(module), which touches nothing
\* the other goroutines see; a failed read is doLoad's result
SetOwner(g) ==
    /\ ~Idle(g)
    /\ Top(g).pc = "setOwner"
    /\ loadCount' = [loadCount EXCEPT ![Top(g).module] = @ + 1]
    /\ IF Top(g).module \in Files
       THEN /\ stack' = SetTop(g, [Top(g) EXCEPT !.pc = "exec", !.ip = 1])
            /\ entry' = [entry EXCEPT ![Top(g).e].owner = Me(g)]
       ELSE /\ stack' = SetTop(g, [Top(g) EXCEPT !.pc = "clearOwner"])
            /\ entry' = [entry EXCEPT ![Top(g).e].owner = Me(g),
                                      ![Top(g).e].globals = NoGlobals,
                                      ![Top(g).e].err = FileErr]
    /\ UNCHANGED <<cache, waitsFor, calls, evictions, orphans, returned, viewVars, runVars, convVars, sliceVars, lockVars>>

\* starlark.ExecFile reaches a load statement: thread.Load calls c.get(cc, dep)
ExecLoad(g) ==
    /\ ~Idle(g)
    /\ Top(g).pc = "exec"
    /\ Top(g).ip <= Len(LoadsOf(Top(g).module))
    /\ GetLock(g, LoadsOf(Top(g).module)[Top(g).ip], stack[g])
    /\ UNCHANGED <<waitsFor, calls, loadCount, evictions, orphans, returned, viewVars, runVars, convVars, sliceVars, lockVars>>

\* starlark.ExecFile runs to the end: e.globals, e.err = globals, nil
ExecDone(g) ==
    /\ ~Idle(g)
    /\ Top(g).pc = "exec"
    /\ Top(g).ip > Len(LoadsOf(Top(g).module))
    /\ entry' = [entry EXCEPT ![Top(g).e].globals = <<Top(g).module, loadCount[Top(g).module]>>,
                              ![Top(g).e].err = NoErr]
    /\ stack' = SetTop(g, [Top(g) EXCEPT !.pc = "clearOwner"])
    /\ UNCHANGED <<cache, waitsFor, calls, loadCount, evictions, orphans, returned, viewVars, runVars, convVars, sliceVars, lockVars>>

\* the end of a load that leaves the owner marker as it is (a variant the
\* properties must tell apart)
ClearOwnerKeep(g) ==
    /\ ~Idle(g)
    /\ Top(g).pc = "clearOwner"
    /\ stack' = SetTop(g, [Top(g) EXCEPT !.pc = "close"])
    /\ UNCHANGED <<cache, entry, waitsFor, calls, loadCount, evictions, orphans, returned, viewVars, runVars, convVars, sliceVars, lockVars>>

\* e.setOwner(nil)
ClearOwner(g) ==
    /\ ~Idle(g)
    /\ Top(g).pc = "clearOwner"
    /\ entry' = [entry EXCEPT ![Top(g).e].owner = NoCC]
    /\ stack' = SetTop(g, [Top(g) EXCEPT !.pc = "close"])
    /\ UNCHANGED <<cache, waitsFor, calls, loadCount, evictions, orphans, returned, viewVars, runVars, convVars, sliceVars, lockVars>>

\* close(e.ready) that closes the channel of the entry the map holds for the
\* module (a variant the properties must tell apart)
CloseReadyInMap(g) ==
    /\ ~Idle(g)
    /\ Top(g).pc = "close"
    /\ ReturnFrom(g, IF cache[Top(g).module] = NilEntry THEN entry
                     ELSE [entry EXCEPT ![cache[Top(g).module]].ready = TRUE],
                  entry[Top(g).e].globals, entry[Top(g).e].err)
    /\ UNCHANGED <<cache, waitsFor, calls, loadCount, evictions, viewVars, runVars, convVars, sliceVars, lockVars>>

\* close(e.ready); return e.globals, e.err
CloseReady(g) ==
    /\ ~Idle(g)
    /\ Top(g).pc = "close"
    /\ ReturnFrom(g, [entry EXCEPT ![Top(g).e].ready = TRUE],
                  entry[Top(g).e].globals, entry[Top(g).e].err)
    /\ UNCHANGED <<cache, waitsFor, calls, loadCount, evictions, viewVars, runVars, convVars, sliceVars, lockVars>>

\* the entries of the modules M that the map holds and that are not ready
Unready(M) == {cache[m] : m \in {x \in M : cache[x] # NilEntry /\ ~entry[cache[x]].ready}}

\* cache.remove(module), behind Forget
Remove(m) ==
    /\ evictions < MaxEvict
    /\ evictions' = evictions + 1
    /\ cache' = [cache EXCEPT ![m] = NilEntry]
    /\ orphans' = orphans \cup Unready({m})
    /\ UNCHANGED <<entry, waitsFor, calls, stack, loadCount, returned, viewVars, runVars, convVars, sliceVars, lockVars>>

\* cache.reset(), behind Reset
Reset ==
    /\ evictions < MaxEvict
    /\ evictions' = evictions + 1
    /\ cache' = [m \in Modules |-> NilEntry]
    /\ orphans' = orphans \cup Unready(Modules)
    /\ UNCHANGED <<entry, waitsFor, calls, stack, loadCount, returned, viewVars, runVars, convVars, sliceVars, lockVars>>

\* the modules two callers load while the host evicts: the load cycles, a
\* chain of two and the missing file
CacheModules == {"a", "b", "s", "c", "d", "x"}

CacheNext ==
    \/ \E g \in Callers, m \in CacheModules : Load(g, m)
    \/ \E g \in Callers : CheckOwner(g)
    \/ \E g \in Callers : CheckWaits(g)
    \/ \E g \in Callers : SetWaitsFor(g)
    \/ \E g \in Callers : WaitReady(g)
    \/ \E g \in Callers : ClearWaitsFor(g)
    \/ \E g \in Callers : SetOwner(g)
    \/ \E g \in Callers : ExecLoad(g)
    \/ \E g \in Callers : ExecDone(g)
    \/ \E g \in Callers : ClearOwner(g)
    \/ \E g \in Callers : CloseReady(g)
    \/ \E m \in Modules : Remove(m)
    \/ Reset

\* the next step of goroutine g inside cache.get
Step(g) ==
    \/ CheckOwner(g)
    \/ CheckWaits(g)
    \/ SetWaitsFor(g)
    \/ WaitReady(g)
    \/ ClearWaitsFor(g)
    \/ SetOwner(g)
    \/ ExecLoad(g)
    \/ ExecDone(g)
    \/ ClearOwner(g)
    \/ CloseReady(g)

\* three goroutines load the modules of a load cycle and a leaf, once each,
\* and nothing is evicted
WalkModules == {"a", "b", "c"}

WalkNext ==
    \/ \E g \in Goroutines, m \in WalkModules : Load(g, m)
    \/ \E g \in Goroutines : Step(g)

\* two goroutines load the modules of an acyclic load graph and nothing is
\* evicted
AcyclicModules == {"c", "d", "t"}

AcyclicNext ==
    \/ \E g \in Callers, m \in AcyclicModules : Load(g, m)
    \/ \E g \in Callers : Step(g)

\* two goroutines load the modules of an acyclic load graph while the host
\* evicts
EvictModules == {"c", "d"}

EvictNext ==
    \/ \E g \in Callers, m \in EvictModules : Load(g, m)
    \/ \E g \in Callers : Step(g)
    \/ \E m \in EvictModules : Remove(m)
    \/ Reset

(***************************************************************************)
(* Script values and their conversion to the container's Go types.         *)
(***************************************************************************)
\* a starlark.Int or a starlark.String handed in by the script
IntVal(n) == [kind |-> "int", n |-> n]

StrVal == [kind |-> "str", n |-> 0]

Keys == {1, 2}

Vals == {1, 2}

ScriptKeys == {IntVal(k) : k \in Keys} \cup {StrVal}

ScriptVals == {IntVal(x) : x \in Vals}

NoError == <<>>

\* conv: FromValue(v), then reflect's Convert to an int key, element or field;
\* Convert panics on a string
CanConv(v) == v.kind = "int"

Conv(v) == v.n

ConvPanic == <<"reflect.Value.Convert: value of type string cannot be converted to type int">>

MapViews == {"m1"}

\* the Views of the host's map once toValue has wrapped it a second time
\* (&GoMap{v: val} on every conversion): "m2" shares the map with "m1" and
\* has a numIt and a frozen flag of its own
MapAliases == {"m1", "m2"}

SliceViews == {"s1"}

Views == MapAliases \cup SliceViews

EmptyMap == [k \in {} |-> 0]

\* reflect's SetMapIndex(key, val) and SetMapIndex(key, reflect.Value{})
MapPut(m, k, x) == [y \in DOMAIN m \cup {k} |-> IF y = k THEN x ELSE m[y]]

MapDel(m, k) == [y \in DOMAIN m \ {k} |-> m[y]]

\* reflect's MapKeys: the keys in an unspecified order
MapKeys(m) ==
    {ks \in [1..Cardinality(DOMAIN m) -> DOMAIN m] :
        \A i, j \in DOMAIN ks : i # j => ks[i] # ks[j]}

\* what the last call was and how it ended: the builtin or method, the View,
\* the number of arguments, and the error returned or the panic raised
Op(op, v, args, err) ==
    [op |-> op, view |-> v, n |-> Len(args), err |-> err, panic |-> FALSE, out |-> <<>>]

Panic(op, v, args) ==
    [op |-> op, view |-> v, n |-> Len(args), err |-> ConvPanic, panic |-> TRUE, out |-> <<>>]

\* a call that returned the native values out to the script
OpOut(op, v, args, out) ==
    [op |-> op, view |-> v, n |-> Len(args), err |-> NoError, panic |-> FALSE, out |-> out]

ViewInit ==
    /\ hosted \in {"map", "slice", "struct"}
    /\ hostMap = [k \in Keys |-> 1]
    /\ hostArr = <<1, 2>>
    /\ hostLen \in IF hosted = "slice" THEN {1, 2} ELSE {2}
    /\ hdr = [v \in SliceViews |-> [shared |-> TRUE, len |-> hostLen, priv |-> <<>>]]
    /\ hostStruct = [Age |-> 1, secret |-> 1]
    /\ view = [v \in Views |-> [numIt |-> 0, frozen |-> FALSE]]
    /\ iters = <<>>
    /\ lastOp = Op("none", "none", <<>>, NoError)

\* the files Run is asked for: "d" loads "c", "x" is in no directory
RunFiles == {"c", "d", "x"}

\* the globals a Run call passes ("input": "hello", "input": "goodbye"):
\* each caller has its own
RunGlobals(g) == IF g = "g1" THEN {1} ELSE {2}

NoProgram == 0

\* the content of a file that starlark.SourceProgram rejects
BadSource == -1

NoRun == [pc |-> "idle", file |-> "", gl |-> 0, prog |-> NoProgram, read |-> FALSE,
          cached |-> FALSE]

NoResult == [file |-> "", gl |-> 0, prog |-> NoProgram, out |-> <<>>, read |-> FALSE,
             cached |-> FALSE, err |-> NoErr]

RunInit ==
    /\ scripts = [f \in RunFiles |-> NoProgram]
    /\ disk = [f \in RunFiles \cap Files |-> 1]
    /\ run = [g \in Goroutines |-> NoRun]
    /\ reads = [f \in RunFiles |-> 0]
    /\ edits = 0
    /\ evicted = {}
    /\ stale = {}
    /\ lastRun = NoResult

\* no conversion made yet
NoConv == [op |-> "none", done |-> TRUE]

ConvInit == conv = NoConv

\* no GoSlice.Slice yet
Free == ""

\* no call in flight
NoCall == [call |-> "none", pc |-> "idle", file |-> "", st |-> <<>>, w |-> 0]

LockInit ==
    /\ mu = Free
    /\ cacheMu = Free
    /\ thr = [g \in Goroutines |-> NoCall]
    /\ progs = {}
    /\ cmap = [m \in Modules |-> 0]
    /\ ent = <<>>
    /\ ops = 0

NoSlice == [arr |-> 0, len |-> 0]

NoSliceOp == [op |-> "none", start |-> 0, end |-> 0, step |-> 0, panic |-> "", writes |-> 0]

\* the source is a GoSlice over []int{1, 2, 3}
SliceInit ==
    /\ arrays = <<(<<1, 2, 3>>)>>
    /\ slices = [src |-> [arr |-> 1, len |-> 3], res |-> NoSlice]
    /\ sliceOp = NoSliceOp

Init == CacheInit /\ ViewInit /\ RunInit /\ ConvInit /\ SliceInit /\ LockInit

(***************************************************************************)
(* GoMap.                                                                  *)
(***************************************************************************)
\* SetKey without the numIt test (a variant the properties must tell apart)
SetKeyNoIter(v, m, k, x) ==
    IF view[v].frozen
    THEN [m |-> m, err |-> <<"cannot insert into frozen map">>]
    ELSE IF ~CanConv(k) \/ ~CanConv(x)
    THEN [m |-> m, err |-> ConvPanic]
    ELSE [m |-> MapPut(m, Conv(k), Conv(x)), err |-> NoError]

\* GoMap.SetKey on the map m: the map it leaves and the error it returns
SetKey(v, m, k, x) ==
    IF view[v].frozen
    THEN [m |-> m, err |-> <<"cannot insert into frozen map">>]
    ELSE IF view[v].numIt > 0
    THEN [m |-> m, err |-> <<"cannot insert into map during iteration">>]
    ELSE IF ~CanConv(k) \/ ~CanConv(x)   \* conv panics, the panic is recovered into err
    THEN [m |-> m, err |-> ConvPanic]
    ELSE [m |-> MapPut(m, Conv(k), Conv(x)), err |-> NoError]

MapSetKey(v, k, x) ==
    /\ hosted = "map"
    /\ LET r == SetKey(v, hostMap, k, x) IN
         /\ hostMap' = r.m
         /\ lastOp' = Op("SetKey", v, <<k, x>>, r.err)
    /\ UNCHANGED <<hosted, hostArr, hostLen, hdr, hostStruct, view, iters, cacheVars, runVars, convVars, sliceVars, lockVars>>

\* GoMap.Delete; found tells whether the key was present
Delete(v, m, k) ==
    IF view[v].frozen
    THEN [m |-> m, found |-> FALSE, err |-> <<"cannot delete from frozen map">>, panic |-> FALSE]
    ELSE IF view[v].numIt > 0
    THEN [m |-> m, found |-> FALSE, err |-> <<"cannot delete from map during iteration">>,
          panic |-> FALSE]
    ELSE IF ~CanConv(k)
    THEN [m |-> m, found |-> FALSE, err |-> ConvPanic, panic |-> TRUE]
    ELSE [m |-> MapDel(m, Conv(k)), found |-> Conv(k) \in DOMAIN m, err |-> NoError,
          panic |-> FALSE]

\* dict_pop(key) and dict_pop(key, default), the script's way to Delete
MapPop(v, k, hasDefault) ==
    /\ hosted = "map"
    /\ LET r == Delete(v, hostMap, k)
           a == IF hasDefault THEN <<k, IntVal(0)>> ELSE <<k>>
       IN
         /\ hostMap' = r.m
         /\ lastOp' = IF r.panic THEN Panic("pop", v, a)
                       ELSE IF r.err # NoError THEN Op("pop", v, a, r.err)
                       ELSE IF r.found \/ hasDefault THEN Op("pop", v, a, NoError)
                       ELSE Op("pop", v, a, <<"pop: missing key">>)
    /\ UNCHANGED <<hosted, hostArr, hostLen, hdr, hostStruct, view, iters, cacheVars, runVars, convVars, sliceVars, lockVars>>

\* dict_popitem: the first of MapKeys, whichever that is, goes through
\* g.delete (not Delete) and comes back with its value
MapPopItem(v) ==
    /\ hosted = "map"
    /\ IF DOMAIN hostMap = {}
       THEN /\ lastOp' = Op("popitem", v, <<>>, <<"popitem: empty dict">>)
            /\ UNCHANGED hostMap
       ELSE /\ \E ks \in MapKeys(hostMap) : hostMap' = MapDel(hostMap, ks[1])
            /\ lastOp' = Op("popitem", v, <<>>, NoError)
    /\ UNCHANGED <<hosted, hostArr, hostLen, hdr, hostStruct, view, iters, cacheVars, runVars, convVars, sliceVars, lockVars>>

\* GoMap.Clear, also behind dict_clear
MapClear(v) ==
    /\ hosted = "map"
    /\ IF view[v].frozen
       THEN /\ lastOp' = Op("Clear", v, <<>>, <<"cannot clear frozen map">>)
            /\ UNCHANGED hostMap
       ELSE IF view[v].numIt > 0
       THEN /\ lastOp' = Op("Clear", v, <<>>, <<"cannot clear map during iteration">>)
            /\ UNCHANGED hostMap
       ELSE /\ lastOp' = Op("Clear", v, <<>>, NoError)
            /\ hostMap' = EmptyMap
    /\ UNCHANGED <<hosted, hostArr, hostLen, hdr, hostStruct, view, iters, cacheVars, runVars, convVars, sliceVars, lockVars>>

\* updateDict over the pairs of a dict argument or of the named arguments:
\* SetKey pair after pair, stopping at the first error
RECURSIVE updateDict(_, _, _)
updateDict(v, m, pairs) ==
    IF pairs = <<>> THEN [m |-> m, err |-> NoError]
    ELSE LET r == SetKey(v, m, pairs[1], pairs[2]) IN
         IF r.err # NoError THEN r ELSE updateDict(v, r.m, SubSeq(pairs, 3, Len(pairs)))

\* the argument lists of update: k1, v1, k2, v2, ...
\* a pair that adds a key, one that overwrites a key, one whose key is a string
UpdatePairs == {<<IntVal(2), IntVal(2)>>, <<IntVal(1), IntVal(2)>>, <<StrVal, IntVal(1)>>}

RECURSIVE PairListsOf(_)
PairListsOf(n) ==
    IF n = 0 THEN {<<>>}
    ELSE {kx \o p : kx \in UpdatePairs, p \in PairListsOf(n - 1)}

PairLists == UNION {PairListsOf(n) : n \in 0..MaxItems}

\* dict_update
MapUpdate(v, pairs) ==
    /\ hosted = "map"
    /\ LET r == updateDict(v, hostMap, pairs) IN
         /\ hostMap' = r.m
         /\ lastOp' = Op("update", v, pairs,
                          IF r.err # NoError THEN <<"update: ">> \o r.err ELSE NoError)
    /\ UNCHANGED <<hosted, hostArr, hostLen, hdr, hostStruct, view, iters, cacheVars, runVars, convVars, sliceVars, lockVars>>

\* Freeze as a switch (a variant the properties must tell apart)
MapFreezeToggle(v) ==
    /\ hosted = "map"
    /\ view' = [view EXCEPT ![v].frozen = ~@]
    /\ lastOp' = Op("Freeze", v, <<>>, NoError)
    /\ UNCHANGED <<hosted, hostMap, hostArr, hostLen, hdr, hostStruct, iters, cacheVars, runVars, convVars, sliceVars, lockVars>>

\* Freeze that marks the container, that is every View of it (a variant the
\* properties must tell apart)
MapFreezeAll(v) ==
    /\ hosted = "map"
    /\ view' = [w \in DOMAIN view |-> IF w \in MapAliases THEN [view[w] EXCEPT !.frozen = TRUE]
                                      ELSE view[w]]
    /\ lastOp' = Op("Freeze", v, <<>>, NoError)
    /\ UNCHANGED <<hosted, hostMap, hostArr, hostLen, hdr, hostStruct, iters, cacheVars, runVars, convVars, sliceVars, lockVars>>

\* GoMap.Freeze
MapFreeze(v) ==
    /\ hosted = "map"
    /\ view' = [view EXCEPT ![v].frozen = TRUE]
    /\ lastOp' = Op("Freeze", v, <<>>, NoError)
    /\ UNCHANGED <<hosted, hostMap, hostArr, hostLen, hdr, hostStruct, iters, cacheVars, runVars, convVars, sliceVars, lockVars>>

\* GoMap.Iterate: numIt++ and a mapIterator over a snapshot of the keys
\* (at: the keys of the map at this call, seen: the keys Next has yielded,
\* ext: whether a builtin of the library, not the script, holds the iterator)
MapIterate(v) ==
    /\ hosted = "map"
    /\ Len(iters) < MaxIters
    /\ \E ks \in MapKeys(hostMap) :
          iters' = Append(iters, [view |-> v, i |-> 0, keys |-> ks,
                                  at |-> DOMAIN hostMap, seen |-> <<>>, ext |-> FALSE])
    /\ view' = [view EXCEPT ![v].numIt = @ + 1]
    /\ lastOp' = Op("Iterate", v, <<>>, NoError)
    /\ UNCHANGED <<hosted, hostMap, hostArr, hostLen, hdr, hostStruct, cacheVars, runVars, convVars, sliceVars, lockVars>>

\* Next that walks the keys the map holds now instead of the snapshot (a
\* variant the properties must tell apart)
MapIterNextLive(n) ==
    /\ hosted = "map"
    /\ n \in DOMAIN iters
    /\ iters[n].i < Cardinality(DOMAIN hostMap)
    /\ \E ks \in MapKeys(hostMap) :
          /\ iters' = [iters EXCEPT ![n].i = @ + 1,
                                      ![n].seen = Append(@, ks[iters[n].i + 1])]
          /\ lastOp' = Op("Next", iters[n].view, <<IntVal(ks[iters[n].i + 1])>>, NoError)
    /\ UNCHANGED <<hosted, hostMap, hostArr, hostLen, hdr, hostStruct, view, cacheVars, runVars, convVars, sliceVars, lockVars>>

\* mapIterator.Next while keys are left
MapIterNext(n) ==
    /\ hosted = "map"
    /\ n \in DOMAIN iters
    /\ iters[n].i < Len(iters[n].keys)
    /\ iters' = [iters EXCEPT ![n].i = @ + 1,
                                ![n].seen = Append(@, iters[n].keys[iters[n].i + 1])]
    /\ lastOp' = Op("Next", iters[n].view, <<IntVal(iters[n].keys[iters[n].i + 1])>>, NoError)
    /\ UNCHANGED <<hosted, hostMap, hostArr, hostLen, hdr, hostStruct, view, cacheVars, runVars, convVars, sliceVars, lockVars>>

\* the sequence s without its n-th element
RemoveAt(s, n) == SubSeq(s, 1, n - 1) \o SubSeq(s, n + 1, Len(s))

\* Done that leaves numIt alone (a variant the properties must tell apart)
MapIterDoneKeep(n) ==
    /\ hosted = "map"
    /\ n \in DOMAIN iters
    /\ iters' = RemoveAt(iters, n)
    /\ lastOp' = Op("Done", iters[n].view, <<>>, NoError)
    /\ UNCHANGED <<hosted, hostMap, hostArr, hostLen, hdr, hostStruct, view, cacheVars, runVars, convVars, sliceVars, lockVars>>

\* mapIterator.Done, called once on every iterator: numIt--
MapIterDone(n) ==
    /\ hosted = "map"
    /\ n \in DOMAIN iters
    /\ view' = [view EXCEPT ![iters[n].view].numIt = @ - 1]
    /\ iters' = RemoveAt(iters, n)
    /\ lastOp' = Op("Done", iters[n].view, <<>>, NoError)
    /\ UNCHANGED <<hosted, hostMap, hostArr, hostLen, hdr, hostStruct, cacheVars, runVars, convVars, sliceVars, lockVars>>

MapNext ==
    \/ \E v \in MapViews, k \in ScriptKeys, x \in ScriptVals : MapSetKey(v, k, x)
    \/ \E v \in MapViews, k \in ScriptKeys, d \in BOOLEAN : MapPop(v, k, d)
    \/ \E v \in MapViews : MapClear(v)
    \/ \E v \in MapViews : MapPopItem(v)
    \/ \E v \in MapViews, pairs \in PairLists : MapUpdate(v, pairs)
    \/ \E v \in MapViews : MapFreeze(v)
    \/ \E v \in MapViews : MapIterate(v)
    \/ \E n \in 1..MaxIters : MapIterNext(n)
    \/ \E n \in 1..MaxIters : MapIterDone(n)

\* GoMap.Get for a key conv accepts: the value the map holds now, if any
Get(m, k) == IF Conv(k) \in DOMAIN m THEN <<m[Conv(k)]>> ELSE <<>>

\* GoMap.Get, also behind m[k] and dict_get; conv runs with no recover
MapGet(v, k) ==
    /\ hosted = "map"
    /\ lastOp' = IF ~CanConv(k) THEN Panic("Get", v, <<k>>)
                  ELSE OpOut("Get", v, <<k>>, Get(hostMap, k))
    /\ UNCHANGED <<hosted, hostMap, hostArr, hostLen, hdr, hostStruct, view, iters, cacheVars, runVars, convVars, sliceVars, lockVars>>

\* setdefault that stores the default whether or not the key is there (a
\* variant the properties must tell apart)
MapSetDefaultAlways(v, k, d) ==
    /\ hosted = "map"
    /\ IF ~CanConv(k)
       THEN /\ lastOp' = Panic("setdefault", v, <<k, d>>)
            /\ UNCHANGED hostMap
       ELSE LET r == SetKey(v, hostMap, k, d) IN
              /\ hostMap' = r.m
              /\ lastOp' = IF r.err # NoError THEN Op("setdefault", v, <<k, d>>, r.err)
                            ELSE OpOut("setdefault", v, <<k, d>>, <<Conv(d)>>)
    /\ UNCHANGED <<hosted, hostArr, hostLen, hdr, hostStruct, view, iters, cacheVars, runVars, convVars, sliceVars, lockVars>>

\* dict_setdefault(k, d): the value Get finds, else d after SetKey(k, d)
MapSetDefault(v, k, d) ==
    /\ hosted = "map"
    /\ IF ~CanConv(k)
       THEN /\ lastOp' = Panic("setdefault", v, <<k, d>>)
            /\ UNCHANGED hostMap
       ELSE IF Get(hostMap, k) # <<>>
       THEN /\ lastOp' = OpOut("setdefault", v, <<k, d>>, Get(hostMap, k))
            /\ UNCHANGED hostMap
       ELSE LET r == SetKey(v, hostMap, k, d) IN
              /\ hostMap' = r.m
              /\ lastOp' = IF r.err # NoError THEN Op("setdefault", v, <<k, d>>, r.err)
                            ELSE OpOut("setdefault", v, <<k, d>>, <<Conv(d)>>)
    /\ UNCHANGED <<hosted, hostArr, hostLen, hdr, hostStruct, view, iters, cacheVars, runVars, convVars, sliceVars, lockVars>>

\* the argument lists of update with one pair more than PairLists has
LongPairLists == UNION {PairListsOf(n) : n \in 0..(MaxItems + 1)}

\* the script at work on two Views of the host's map, in one loop at a time
AliasNext ==
    \/ \E v \in MapAliases, k \in ScriptKeys, x \in ScriptVals : MapSetKey(v, k, x)
    \/ \E v \in MapAliases, k \in ScriptKeys, d \in BOOLEAN : MapPop(v, k, d)
    \/ \E v \in MapAliases : MapClear(v)
    \/ \E v \in MapAliases : MapPopItem(v)
    \/ \E v \in MapAliases, pairs \in LongPairLists : MapUpdate(v, pairs)
    \/ \E v \in MapAliases, k \in ScriptKeys : MapGet(v, k)
    \/ \E v \in MapAliases, k \in ScriptKeys, d \in ScriptVals : MapSetDefault(v, k, d)
    \/ \E v \in MapAliases : MapFreeze(v)
    \/ \E v \in MapAliases : iters = <<>> /\ MapIterate(v)
    \/ \E n \in 1..MaxIters : MapIterNext(n)
    \/ \E n \in 1..MaxIters : MapIterDone(n)

(***************************************************************************)
(* GoSlice.  A slice header is a backing array and a length; the header of *)
(* a view starts as a copy of the host's header, so it shares the host's   *)
(* array until an append outgrows the capacity and moves the view to an    *)
(* array of its own.                                                       *)
(***************************************************************************)
\* the backing array behind g.v, and what g.v and the host's slice hold
Arr(v) == IF hdr[v].shared THEN hostArr ELSE hdr[v].priv

ViewSeq(v) == SubSeq(Arr(v), 1, hdr[v].len)

HostSeq == SubSeq(hostArr, 1, hostLen)

Zeros(n) == [i \in 1..n |-> 0]

\* the capacity reflect.Append grows to: doubled until the elements fit
RECURSIVE GrowCap(_, _)
GrowCap(cap, need) ==
    IF cap = 0 THEN need ELSE IF cap >= need THEN cap ELSE GrowCap(cap + cap, need)

\* a slice value: its array, whether that array is the host's, its length
Sl(arr, shared, len) == [arr |-> arr, shared |-> shared, len |-> len]

SlOf(v) == Sl(Arr(v), hdr[v].shared, hdr[v].len)

\* reflect.Append(s, x): in place while the capacity lasts, else into a new array
ReflectAppend(s, x) ==
    IF s.len < Len(s.arr)
    THEN Sl([s.arr EXCEPT ![s.len + 1] = x], s.shared, s.len + 1)
    ELSE Sl(SubSeq(s.arr, 1, s.len) \o <<x>> \o Zeros(GrowCap(Len(s.arr), s.len + 1) - s.len - 1),
            FALSE, s.len + 1)

\* reflect.AppendSlice(s.Slice(0, i), s.Slice(i+1, s.Len())): the tail moves
\* down one cell inside the same array (i counts from 0)
CutAt(s, i) ==
    Sl([j \in 1..Len(s.arr) |-> IF j > i /\ j < s.len THEN s.arr[j + 1] ELSE s.arr[j]],
       s.shared, s.len - 1)

\* g.v = s: the view takes the header; the cells of a shared array are the host's
StoreSlice(v, s) ==
    /\ hdr' = [hdr EXCEPT ![v] = [shared |-> s.shared, len |-> s.len,
                                  priv |-> IF s.shared THEN <<>> ELSE s.arr]]
    /\ hostArr' = IF s.shared THEN s.arr ELSE hostArr

\* checkMutable without the frozen test (a variant the properties must tell apart)
checkMutableNoFrozen(v, verb) ==
    IF view[v].numIt > 0 THEN <<"cannot " \o verb \o " slice during iteration">>
    ELSE NoError

\* GoSlice.checkMutable
checkMutable(v, verb) ==
    IF view[v].frozen THEN <<"cannot " \o verb \o " frozen slice">>
    ELSE IF view[v].numIt > 0 THEN <<"cannot " \o verb \o " slice during iteration">>
    ELSE NoError

\* GoSlice.SetIndex, reached with an index the interpreter found inside [0:len)
SliceSetIndex(v, i, x) ==
    /\ hosted = "slice"
    /\ i < hdr[v].len
    /\ LET err == checkMutable(v, "assign to") IN
         /\ lastOp' = Op("SetIndex", v, <<IntVal(i), x>>, err)
         /\ IF err # NoError
            THEN UNCHANGED <<hdr, hostArr>>
            ELSE StoreSlice(v, Sl([Arr(v) EXCEPT ![i + 1] = Conv(x)], hdr[v].shared, hdr[v].len))
    /\ UNCHANGED <<hosted, hostMap, hostLen, hostStruct, view, iters, cacheVars, runVars, convVars, sliceVars, lockVars>>

\* list_append
SliceAppend(v, x) ==
    /\ hosted = "slice"
    /\ hdr[v].len < MaxLen
    /\ LET err == checkMutable(v, "append to") IN
         /\ lastOp' = Op("append", v, <<x>>, err)
         /\ IF err # NoError
            THEN UNCHANGED <<hdr, hostArr>>
            ELSE StoreSlice(v, ReflectAppend(SlOf(v), Conv(x)))
    /\ UNCHANGED <<hosted, hostMap, hostLen, hostStruct, view, iters, cacheVars, runVars, convVars, sliceVars, lockVars>>

RECURSIVE AppendAll(_, _)
AppendAll(s, xs) ==
    IF xs = <<>> THEN s ELSE AppendAll(ReflectAppend(s, Conv(xs[1])), Tail(xs))

RECURSIVE SeqsUpTo(_, _)
SeqsUpTo(S, n) ==
    IF n = 0 THEN {<<>>}
    ELSE SeqsUpTo(S, n - 1) \cup {Append(q, x) : q \in SeqsUpTo(S, n - 1), x \in S}

\* list_extend with a list of the script as its argument
SliceExtend(v, xs) ==
    /\ hosted = "slice"
    /\ hdr[v].len + Len(xs) <= MaxLen
    /\ LET err == checkMutable(v, "extend") IN
         /\ lastOp' = Op("extend", v, xs, err)
         /\ IF err # NoError
            THEN UNCHANGED <<hdr, hostArr>>
            ELSE StoreSlice(v, AppendAll(SlOf(v), xs))
    /\ UNCHANGED <<hosted, hostMap, hostLen, hostStruct, view, iters, cacheVars, runVars, convVars, sliceVars, lockVars>>

\* insert that takes a negative index for the front instead of counting it
\* from the end (a variant the properties must tell apart)
SliceInsertFront(v, index, x) ==
    /\ hosted = "slice"
    /\ hdr[v].len < MaxLen
    /\ LET err == checkMutable(v, "insert into")
           n   == hdr[v].len
           i1  == IF index < 0 THEN 0 ELSE index
           i   == IF i1 < 0 THEN 0 ELSE i1
           s1  == ReflectAppend(SlOf(v), 0)
       IN
         /\ lastOp' = Op("insert", v, <<IntVal(index), x>>, err)
         /\ IF err # NoError
            THEN UNCHANGED <<hdr, hostArr>>
            ELSE IF i1 >= n
            THEN StoreSlice(v, ReflectAppend(SlOf(v), Conv(x)))
            ELSE \* append a zero, slide the tail up one cell, set the cell
                 StoreSlice(v, Sl([j \in 1..Len(s1.arr) |->
                                      IF j = i + 1 THEN Conv(x)
                                      ELSE IF j > i + 1 /\ j <= s1.len THEN s1.arr[j - 1]
                                      ELSE s1.arr[j]],
                                  s1.shared, s1.len))
    /\ UNCHANGED <<hosted, hostMap, hostLen, hostStruct, view, iters, cacheVars, runVars, convVars, sliceVars, lockVars>>

\* list_insert: a negative index counts from the end, the result is clamped
SliceInsert(v, index, x) ==
    /\ hosted = "slice"
    /\ hdr[v].len < MaxLen
    /\ LET err == checkMutable(v, "insert into")
           n   == hdr[v].len
           i1  == IF index < 0 THEN index + n ELSE index
           i   == IF i1 < 0 THEN 0 ELSE i1
           s1  == ReflectAppend(SlOf(v), 0)
       IN
         /\ lastOp' = Op("insert", v, <<IntVal(index), x>>, err)
         /\ IF err # NoError
            THEN UNCHANGED <<hdr, hostArr>>
            ELSE IF i1 >= n
            THEN StoreSlice(v, ReflectAppend(SlOf(v), Conv(x)))
            ELSE \* append a zero, slide the tail up one cell, set the cell
                 StoreSlice(v, Sl([j \in 1..Len(s1.arr) |->
                                      IF j = i + 1 THEN Conv(x)
                                      ELSE IF j > i + 1 /\ j <= s1.len THEN s1.arr[j - 1]
                                      ELSE s1.arr[j]],
                                  s1.shared, s1.len))
    /\ UNCHANGED <<hosted, hostMap, hostLen, hostStruct, view, iters, cacheVars, runVars, convVars, sliceVars, lockVars>>

\* the first position (from 0) of x in q, or Len(q) when there is none
RECURSIVE IndexOf(_, _, _)
IndexOf(q, x, i) ==
    IF i >= Len(q) THEN Len(q) ELSE IF q[i + 1] = x THEN i ELSE IndexOf(q, x, i + 1)

\* list_remove
SliceRemove(v, x) ==
    /\ hosted = "slice"
    /\ LET err == checkMutable(v, "remove from")
           i   == IndexOf(ViewSeq(v), Conv(x), 0)
       IN
         IF err # NoError
         THEN /\ lastOp' = Op("remove", v, <<x>>, err)
              /\ UNCHANGED <<hdr, hostArr>>
         ELSE IF i = hdr[v].len
         THEN /\ lastOp' = Op("remove", v, <<x>>, <<"remove: element not found">>)
              /\ UNCHANGED <<hdr, hostArr>>
         ELSE /\ lastOp' = Op("remove", v, <<x>>, NoError)
              /\ StoreSlice(v, CutAt(SlOf(v), i))
    /\ UNCHANGED <<hosted, hostMap, hostLen, hostStruct, view, iters, cacheVars, runVars, convVars, sliceVars, lockVars>>

\* pop that calls checkMutable before it looks at the index (a variant the
\* properties must tell apart)
SlicePopGuardFirst(v, hasIndex, index) ==
    /\ hosted = "slice"
    /\ hasIndex \/ index = 0
    /\ LET i   == IF hasIndex THEN index ELSE hdr[v].len - 1
           a   == IF hasIndex THEN <<IntVal(index)>> ELSE <<>>
           err == checkMutable(v, "pop from")
       IN
         IF err # NoError
         THEN /\ lastOp' = Op("pop", v, a, err)
              /\ UNCHANGED <<hdr, hostArr>>
         ELSE IF i < 0 \/ i >= hdr[v].len
         THEN /\ lastOp' = Op("pop", v, a, <<"pop: index is out of range">>)
              /\ UNCHANGED <<hdr, hostArr>>
         ELSE /\ lastOp' = Op("pop", v, a, NoError)
              /\ StoreSlice(v, CutAt(SlOf(v), i))
    /\ UNCHANGED <<hosted, hostMap, hostLen, hostStruct, view, iters, cacheVars, runVars, convVars, sliceVars, lockVars>>

\* list_pop: pop() takes the last element, pop(index) the one at index; the
\* index is checked before checkMutable (the error text goes on to name the
\* index and the length, left out here)
SlicePop(v, hasIndex, index) ==
    /\ hosted = "slice"
    /\ hasIndex \/ index = 0
    /\ LET i   == IF hasIndex THEN index ELSE hdr[v].len - 1
           a   == IF hasIndex THEN <<IntVal(index)>> ELSE <<>>
           err == checkMutable(v, "pop from")
       IN
         IF i < 0 \/ i >= hdr[v].len
         THEN /\ lastOp' = Op("pop", v, a, <<"pop: index is out of range">>)
              /\ UNCHANGED <<hdr, hostArr>>
         ELSE IF err # NoError
         THEN /\ lastOp' = Op("pop", v, a, err)
              /\ UNCHANGED <<hdr, hostArr>>
         ELSE /\ lastOp' = Op("pop", v, a, NoError)
              /\ StoreSlice(v, CutAt(SlOf(v), i))
    /\ UNCHANGED <<hosted, hostMap, hostLen, hostStruct, view, iters, cacheVars, runVars, convVars, sliceVars, lockVars>>

\* GoSlice.Clear, also behind list_clear: g.v = g.v.Slice(0, 0)
SliceClear(v) ==
    /\ hosted = "slice"
    /\ LET err == checkMutable(v, "clear") IN
         /\ lastOp' = Op("clear", v, <<>>, err)
         /\ IF err # NoError
            THEN UNCHANGED <<hdr, hostArr>>
            ELSE StoreSlice(v, Sl(Arr(v), hdr[v].shared, 0))
    /\ UNCHANGED <<hosted, hostMap, hostLen, hostStruct, view, iters, cacheVars, runVars, convVars, sliceVars, lockVars>>

\* GoSlice.Freeze
SliceFreeze(v) ==
    /\ hosted = "slice"
    /\ view' = [view EXCEPT ![v].frozen = TRUE]
    /\ lastOp' = Op("Freeze", v, <<>>, NoError)
    /\ UNCHANGED <<hosted, hostMap, hostArr, hostLen, hdr, hostStruct, iters, cacheVars, runVars, convVars, sliceVars, lockVars>>

\* GoSlice.Iterate: numIt++ and a sliceIterator at position 0
SliceIterate(v) ==
    /\ hosted = "slice"
    /\ Len(iters) < MaxIters
    /\ iters' = Append(iters, [view |-> v, i |-> 0, keys |-> <<>>, at |-> {}, seen |-> <<>>,
                              ext |-> FALSE])
    /\ view' = [view EXCEPT ![v].numIt = @ + 1]
    /\ lastOp' = Op("Iterate", v, <<>>, NoError)
    /\ UNCHANGED <<hosted, hostMap, hostArr, hostLen, hdr, hostStruct, cacheVars, runVars, convVars, sliceVars, lockVars>>

\* sliceIterator.Next while it.i < it.g.v.Len()
SliceIterNext(n) ==
    /\ hosted = "slice"
    /\ n \in DOMAIN iters
    /\ iters[n].i < hdr[iters[n].view].len
    /\ iters' = [iters EXCEPT ![n].i = @ + 1]
    /\ lastOp' = Op("Next", iters[n].view, <<IntVal(ViewSeq(iters[n].view)[iters[n].i + 1])>>,
                    NoError)
    /\ UNCHANGED <<hosted, hostMap, hostArr, hostLen, hdr, hostStruct, view, cacheVars, runVars, convVars, sliceVars, lockVars>>

\* sliceIterator.Done, called once on every iterator: numIt--
SliceIterDone(n) ==
    /\ hosted = "slice"
    /\ n \in DOMAIN iters
    /\ view' = [view EXCEPT ![iters[n].view].numIt = @ - 1]
    /\ iters' = RemoveAt(iters, n)
    /\ lastOp' = Op("Done", iters[n].view, <<>>, NoError)
    /\ UNCHANGED <<hosted, hostMap, hostArr, hostLen, hdr, hostStruct, cacheVars, runVars, convVars, sliceVars, lockVars>>

SliceNext ==
    \/ \E v \in SliceViews, i \in 0..(MaxLen - 1), x \in ScriptVals : SliceSetIndex(v, i, x)
    \/ \E v \in SliceViews, x \in ScriptVals : SliceAppend(v, x)
    \/ \E v \in SliceViews, xs \in SeqsUpTo(ScriptVals, MaxItems) : SliceExtend(v, xs)
    \/ \E v \in SliceViews, i \in -1..MaxLen, x \in ScriptVals : SliceInsert(v, i, x)
    \/ \E v \in SliceViews, x \in ScriptVals : SliceRemove(v, x)
    \/ \E v \in SliceViews, h \in BOOLEAN, i \in -1..MaxLen : SlicePop(v, h, i)
    \/ \E v \in SliceViews : SliceClear(v)
    \/ \E v \in SliceViews : SliceFreeze(v)
    \/ \E v \in SliceViews : SliceIterate(v)
    \/ \E n \in 1..MaxIters : SliceIterNext(n)
    \/ \E n \in 1..MaxIters : SliceIterDone(n)

\* the statement v[index] = x: the interpreter counts a negative index from
\* the end and rejects one outside [0:len) before it calls SetIndex
SliceAssign(v, index, x) ==
    LET n == hdr[v].len
        i == IF index < 0 THEN index + n ELSE index
    IN
      IF i < 0 \/ i >= n
      THEN /\ hosted = "slice"
           /\ lastOp' = Op("SetIndex", v, <<IntVal(index), x>>, <<"index out of range">>)
           /\ UNCHANGED <<hosted, hostMap, hostArr, hostLen, hdr, hostStruct, view, iters, cacheVars, runVars, convVars, sliceVars, lockVars>>
      ELSE SliceSetIndex(v, i, x)

\* list_extend is inside its loop over an iterator it opened
Extending == \E n \in DOMAIN iters : iters[n].ext

\* v.extend(v), up to the loop: the argument count, checkMutable, then
\* iterable.Iterate() on the receiver itself
ExtendSelfBegin(v) ==
    /\ hosted = "slice"
    /\ ~Extending
    /\ LET err == checkMutable(v, "extend") IN
         IF err # NoError
         THEN /\ lastOp' = Op("extend", v, <<v>>, err)
              /\ UNCHANGED <<view, iters>>
         ELSE /\ iters' = Append(iters, [view |-> v, i |-> 0, keys |-> <<>>, at |-> {},
                                         seen |-> <<>>, ext |-> TRUE])
              /\ view' = [view EXCEPT ![v].numIt = @ + 1]
              /\ UNCHANGED lastOp
    /\ UNCHANGED <<hosted, hostMap, hostArr, hostLen, hdr, hostStruct, cacheVars, runVars, convVars, sliceVars, lockVars>>

\* one turn of the loop of list_extend: it.Next finds it.i < it.g.v.Len(),
\* hands out the element and advances; the body appends it to g.v, which is
\* the slice the iterator reads.  The loop never reads a cell below it.i
\* again, so once the slice holds MaxLen elements the first cell is forgotten
\* as the new one is appended, and len and it.i count from the second
ExtendSelfStep(n) ==
    /\ hosted = "slice"
    /\ n \in DOMAIN iters
    /\ iters[n].ext
    /\ iters[n].i < hdr[iters[n].view].len
    /\ LET v == iters[n].view
           s == ReflectAppend(SlOf(v), ViewSeq(v)[iters[n].i + 1])
       IN
         IF s.len <= MaxLen
         THEN /\ StoreSlice(v, s)
              /\ iters' = [iters EXCEPT ![n].i = @ + 1]
         ELSE /\ StoreSlice(v, Sl(Tail(s.arr), s.shared, s.len - 1))
              /\ UNCHANGED iters
    /\ UNCHANGED <<hosted, hostMap, hostLen, hostStruct, view, lastOp, cacheVars, runVars, convVars, sliceVars, lockVars>>

\* the end of list_extend: it.Next finds it.i at the length, the deferred
\* it.Done() runs and the call returns None
ExtendSelfEnd(n) ==
    /\ hosted = "slice"
    /\ n \in DOMAIN iters
    /\ iters[n].ext
    /\ iters[n].i >= hdr[iters[n].view].len
    /\ view' = [view EXCEPT ![iters[n].view].numIt = @ - 1]
    /\ iters' = RemoveAt(iters, n)
    /\ lastOp' = Op("extend", iters[n].view, <<iters[n].view>>, NoError)
    /\ UNCHANGED <<hosted, hostMap, hostArr, hostLen, hdr, hostStruct, cacheVars, runVars, convVars, sliceVars, lockVars>>

\* the call v.extend(v) running on the script's thread
ExtendRun == \E n \in 1..MaxIters : ExtendSelfStep(n) \/ ExtendSelfEnd(n)

\* the script at work on a slice, in one loop at a time; while it is inside
\* extend it does nothing else
SeqNext ==
    \/ /\ ~Extending
       /\ \/ \E v \in SliceViews, i \in -MaxLen..MaxLen, x \in ScriptVals : SliceAssign(v, i, x)
          \/ \E v \in SliceViews, i \in -(MaxLen + 1)..(MaxLen + 1), x \in ScriptVals :
                SliceInsert(v, i, x)
          \/ \E v \in SliceViews, h \in BOOLEAN, i \in -1..MaxLen : SlicePop(v, h, i)
          \/ \E v \in SliceViews : SliceClear(v)
          \/ \E v \in SliceViews : SliceFreeze(v)
          \/ \E v \in SliceViews : iters = <<>> /\ SliceIterate(v)
          \/ \E n \in 1..MaxIters : SliceIterDone(n)
    \/ \E v \in SliceViews : ExtendSelfBegin(v)
    \/ \E n \in 1..MaxIters : ExtendSelfStep(n)
    \/ \E n \in 1..MaxIters : ExtendSelfEnd(n)

(***************************************************************************)
(* GoStruct.  The view "p" wraps a pointer to the host's struct, the view  *)
(* "c" wraps a struct passed by value, which reflect cannot address.       *)
(***************************************************************************)
StructViews == {"p", "c"}

\* the names a script may try: an exported field, an unexported one, no field
FieldNames == {"Age", "secret", "Missing"}

\* reflect's CanSet on FieldByName(name): addressable and exported
CanSet(sv, name) == sv = "p" /\ name = "Age"

\* SetField that sets the field of a copy (a variant the properties must tell apart)
StructSetFieldCopy(sv, name, x) ==
    /\ hosted = "struct"
    /\ IF ~CanSet(sv, name)
       THEN lastOp' = Op("SetField", sv, <<x>>, <<name, " is not a settable field">>)
       ELSE IF ~CanConv(x)
       THEN lastOp' = Panic("SetField", sv, <<x>>)
       ELSE lastOp' = Op("SetField", sv, <<x>>, NoError)
    /\ UNCHANGED <<hosted, hostMap, hostArr, hostLen, hdr, hostStruct, view, iters, cacheVars, runVars, convVars, sliceVars, lockVars>>

\* GoStruct.SetField
StructSetField(sv, name, x) ==
    /\ hosted = "struct"
    /\ IF ~CanSet(sv, name)
       THEN /\ lastOp' = Op("SetField", sv, <<x>>, <<name, " is not a settable field">>)
            /\ UNCHANGED hostStruct
       ELSE IF ~CanConv(x)
       THEN /\ lastOp' = Panic("SetField", sv, <<x>>)
            /\ UNCHANGED hostStruct
       ELSE /\ lastOp' = Op("SetField", sv, <<x>>, NoError)
            /\ hostStruct' = [hostStruct EXCEPT !.Age = Conv(x)]
    /\ UNCHANGED <<hosted, hostMap, hostArr, hostLen, hdr, view, iters, cacheVars, runVars, convVars, sliceVars, lockVars>>

StructNext ==
    \E sv \in StructViews, name \in FieldNames, x \in ScriptVals \cup {StrVal} :
        StructSetField(sv, name, x)

ViewNext == MapNext \/ SliceNext \/ StructNext

(***************************************************************************)
(* Starlight.Run, Forget and Reset.                                        *)
(***************************************************************************)
\* Run that goes to the file whether or not a program is cached (a variant
\* the properties must tell apart)
RunBeginUncached(g, f, gl) ==
    /\ run[g].pc = "idle"
    /\ SumOver(reads, RunFiles) + Cardinality({h \in Goroutines : run[h].pc = "read"}) < MaxReads
    /\ run' = [run EXCEPT ![g] = [pc |-> "read", file |-> f, gl |-> gl, prog |-> NoProgram,
                                    read |-> FALSE, cached |-> scripts[f] # NoProgram]]
    /\ evicted' = evicted \ {f}
    /\ UNCHANGED stale
    /\ UNCHANGED <<scripts, disk, reads, edits, lastRun, cacheVars, viewVars, convVars, sliceVars, lockVars>>

\* Run, the locked lookup in s.scripts: a cached program is run at once,
\* else the file is to be read
RunBegin(g, f, gl) ==
    /\ run[g].pc = "idle"
    /\ \/ scripts[f] # NoProgram
       \/ SumOver(reads, RunFiles) + Cardinality({h \in Goroutines : run[h].pc = "read"})
              < MaxReads
    /\ run' = [run EXCEPT ![g] =
                 IF scripts[f] # NoProgram
                 THEN [pc |-> "exec", file |-> f, gl |-> gl, prog |-> scripts[f],
                       read |-> FALSE, cached |-> TRUE]
                 ELSE [pc |-> "read", file |-> f, gl |-> gl, prog |-> NoProgram,
                       read |-> FALSE, cached |-> FALSE]]
    /\ evicted' = evicted \ {f}
    /\ UNCHANGED stale
    /\ UNCHANGED <<scripts, disk, reads, edits, lastRun, cacheVars, viewVars, convVars, sliceVars, lockVars>>

\* the error Run returns before it has a program: readFile found the file
\* in no directory, or SourceProgram rejected its content
ReadError(f) ==
    IF f \notin DOMAIN disk THEN <<"cannot find file">>
    ELSE IF disk[f] = BadSource THEN <<"syntax error">>
    ELSE NoErr

\* Run that keeps a failed read or compilation in s.scripts (a variant the
\* properties must tell apart)
RunReadKeepFailure(g) ==
    /\ run[g].pc = "read"
    /\ reads' = [reads EXCEPT ![run[g].file] = @ + 1]
    /\ IF ReadError(run[g].file) = NoErr
       THEN /\ run' = [run EXCEPT ![g].pc = "store", ![g].prog = disk[run[g].file],
                                   ![g].read = TRUE]
            /\ UNCHANGED <<lastRun, scripts>>
       ELSE /\ run' = [run EXCEPT ![g] = NoRun]
            /\ scripts' = [scripts EXCEPT ![run[g].file] = BadSource]
            /\ lastRun' =
                   [file |-> run[g].file, gl |-> run[g].gl, prog |-> NoProgram, out |-> <<>>,
                    read |-> TRUE, cached |-> run[g].cached, err |-> ReadError(run[g].file)]
    /\ UNCHANGED <<disk, edits, evicted, stale, cacheVars, viewVars, convVars, sliceVars, lockVars>>

\* Run: s.readFile and starlark.SourceProgram; either failing ends the call
\* with the error, before anything is stored
RunRead(g) ==
    /\ run[g].pc = "read"
    /\ reads' = [reads EXCEPT ![run[g].file] = @ + 1]
    /\ IF ReadError(run[g].file) = NoErr
       THEN /\ run' = [run EXCEPT ![g].pc = "store", ![g].prog = disk[run[g].file],
                                   ![g].read = TRUE]
            /\ UNCHANGED lastRun
       ELSE /\ run' = [run EXCEPT ![g] = NoRun]
            /\ lastRun' =
                   [file |-> run[g].file, gl |-> run[g].gl, prog |-> NoProgram, out |-> <<>>,
                    read |-> TRUE, cached |-> run[g].cached, err |-> ReadError(run[g].file)]
    /\ UNCHANGED <<scripts, disk, edits, evicted, stale, cacheVars, viewVars, convVars, sliceVars, lockVars>>

\* Run: s.scripts[filename] = p under the lock
RunStore(g) ==
    /\ run[g].pc = "store"
    /\ scripts' = [scripts EXCEPT ![run[g].file] = run[g].prog]
    /\ run' = [run EXCEPT ![g].pc = "exec"]
    /\ stale' = IF g \in stale THEN (stale \ {g}) \cup {run[g].file}
                                ELSE stale \ {run[g].file}
    /\ UNCHANGED <<disk, reads, edits, evicted, lastRun, cacheVars, viewVars, convVars, sliceVars, lockVars>>

\* run(p, globals, s.load): the program runs with the globals of this call;
\* each load statement is a cache.Load that runs to its end, creating and
\* readying the module's entry when the cache has none
RunExec(g) ==
    /\ run[g].pc = "exec"
    /\ LET deps == {m \in Deps(run[g].file) : cache[m] = NilEntry}
           m    == CHOOSE d \in deps : TRUE
       IN
         IF deps = {}
         THEN UNCHANGED <<cache, entry, loadCount>>
         ELSE /\ Len(entry) < MaxEntries
              /\ entry' = Append(entry, [NewEntry EXCEPT !.module = m, !.ready = TRUE,
                                             !.globals = <<m, loadCount[m] + 1>>])
              /\ cache' = [cache EXCEPT ![m] = Len(entry) + 1]
              /\ loadCount' = [loadCount EXCEPT ![m] = @ + 1]
    /\ lastRun' =
           [file |-> run[g].file, gl |-> run[g].gl, prog |-> run[g].prog,
            out |-> <<run[g].prog, run[g].gl>>, read |-> run[g].read,
            cached |-> run[g].cached, err |-> NoErr]
    /\ run' = [run EXCEPT ![g] = NoRun]
    /\ UNCHANGED <<scripts, disk, reads, edits, evicted, stale, waitsFor, calls, stack, evictions, orphans,
                   returned, viewVars, convVars, sliceVars, lockVars>>

\* the Run calls of the files F that have read their file and not yet stored
\* the program
HasRead(F) == {g \in Goroutines : run[g].pc = "store" /\ run[g].file \in F}

\* Forget that drops every cached program (a variant the properties must
\* tell apart)
RunForgetAll(f) ==
    /\ evictions < MaxEvict
    /\ evictions' = evictions + 1
    /\ cache' = [cache EXCEPT ![f] = NilEntry]
    /\ orphans' = orphans \cup Unready({f})
    /\ scripts' = [h \in RunFiles |-> NoProgram]
    /\ evicted' = evicted \cup {f}
    /\ stale' = (stale \ {f}) \cup HasRead({f})
    /\ UNCHANGED <<entry, waitsFor, calls, stack, loadCount, returned, disk, run, reads, edits,
                   lastRun, viewVars, convVars, sliceVars, lockVars>>

\* Starlight.Forget: cache.remove and delete(s.scripts, filename) under s.mu
RunForget(f) ==
    /\ evictions < MaxEvict
    /\ evictions' = evictions + 1
    /\ cache' = [cache EXCEPT ![f] = NilEntry]
    /\ orphans' = orphans \cup Unready({f})
    /\ scripts' = [scripts EXCEPT ![f] = NoProgram]
    /\ evicted' = evicted \cup {f}
    /\ stale' = (stale \ {f}) \cup HasRead({f})
    /\ UNCHANGED <<entry, waitsFor, calls, stack, loadCount, returned, disk, run, reads, edits,
                   lastRun, viewVars, convVars, sliceVars, lockVars>>

\* Starlight.Reset: a new s.scripts and cache.reset under s.mu
RunReset ==
    /\ evictions < MaxEvict
    /\ evictions' = evictions + 1
    /\ cache' = [m \in Modules |-> NilEntry]
    /\ orphans' = orphans \cup Unready(Modules)
    /\ scripts' = [f \in RunFiles |-> NoProgram]
    /\ evicted' = RunFiles
    /\ stale' = (stale \ RunFiles) \cup HasRead(RunFiles)
    /\ UNCHANGED <<entry, waitsFor, calls, stack, loadCount, returned, disk, run, reads, edits,
                   lastRun, viewVars, convVars, sliceVars, lockVars>>

\* the host rewrites a file between calls
EditFile(f) ==
    /\ edits < MaxEdits
    /\ edits' = edits + 1
    /\ disk' = [disk EXCEPT ![f] = @ + 1]
    /\ UNCHANGED <<scripts, run, reads, evicted, stale, lastRun, cacheVars, viewVars, convVars, sliceVars, lockVars>>

\* the host leaves a file with a content that does not compile
EditBreak(f) ==
    /\ edits < MaxEdits
    /\ disk[f] # BadSource
    /\ edits' = edits + 1
    /\ disk' = [disk EXCEPT ![f] = BadSource]
    /\ UNCHANGED <<scripts, run, reads, evicted, stale, lastRun, cacheVars, viewVars, convVars, sliceVars, lockVars>>

\* Run and Forget on files of which some are missing and some get broken
FailNext ==
    \/ \E g \in Callers, f \in RunFiles : \E gl \in RunGlobals(g) : RunBegin(g, f, gl)
    \/ \E g \in Callers : RunRead(g)
    \/ \E g \in Callers : RunStore(g)
    \/ \E g \in Callers : RunExec(g)
    \/ \E f \in RunFiles : RunForget(f)
    \/ \E f \in DOMAIN disk : EditBreak(f)

RunNext ==
    \/ \E g \in Callers, f \in RunFiles : \E gl \in RunGlobals(g) : RunBegin(g, f, gl)
    \/ \E g \in Callers : RunRead(g)
    \/ \E g \in Callers : RunStore(g)
    \/ \E g \in Callers : RunExec(g)
    \/ \E f \in RunFiles : RunForget(f)
    \/ RunReset
    \/ \E f \in DOMAIN disk : EditFile(f)

(***************************************************************************)
(* Go values and Starlark values.  A Go value is its reflect.Kind, the     *)
(* kind it points to when it is a pointer, and its value; a value is       *)
(* written as a numeral or a literal.  Integers are drawn from a sample of *)
(* the integers around the limits of each width, listed in increasing      *)
(* order: the order of two numerals is the order of their positions.       *)
(***************************************************************************)
Numerals == <<"-2^64", "-2^63-1", "-2^63", "-2^31", "-2^15", "-128", "-1", "0", "1",
              "123", "127", "255", "2^15-1", "2^16-1", "2^31-1", "2^32-1", "2^63-1",
              "2^63", "2^64-1", "2^64">>

Pos(n) == CHOOSE i \in 1..Len(Numerals) : Numerals[i] = n

Le(a, b) == Pos(a) <= Pos(b)

Between(lo, hi) == {Numerals[i] : i \in Pos(lo)..Pos(hi)}

IntKinds == {"int", "int8", "int16", "int32", "int64"}

UintKinds == {"uint", "uint8", "uint16", "uint32", "uint64"}

FloatKinds == {"float32", "float64"}

\* the values of each integer type (int and uint are 64 bits wide)
RangeOf(kind) ==
    CASE kind = "int8" -> Between("-128", "127")
      [] kind = "int16" -> Between("-2^15", "2^15-1")
      [] kind = "int32" -> Between("-2^31", "2^31-1")
      [] kind \in {"int", "int64"} -> Between("-2^63", "2^63-1")
      [] kind = "uint8" -> Between("0", "255")
      [] kind = "uint16" -> Between("0", "2^16-1")
      [] kind = "uint32" -> Between("0", "2^32-1")
      [] kind \in {"uint", "uint64"} -> Between("0", "2^64-1")

GoVal(kind, val) == [kind |-> kind, elem |-> "", val |-> val]

NilPtr == "nil"

\* a pointer to a value of kind elem: nil, or pointing at val
PtrTo(elem, val) == [kind |-> "ptr", elem |-> elem, val |-> val]

\* reflect.ValueOf(nil): the zero reflect.Value, of kind Invalid
UntypedNil == GoVal("invalid", "")

Floats == {"0.5", "1.5", "NaN"}

\* the scalar Go values: bool, string and every numeric width
Scalars ==
    {GoVal("bool", b) : b \in {"true", "false"}}
    \cup {GoVal("string", "test")}
    \cup UNION {{GoVal(k, n) : n \in RangeOf(k)} : k \in IntKinds \cup UintKinds}
    \cup {GoVal(k, x) : k \in FloatKinds, x \in Floats}

\* the Go values handed to ToValue
GoValues ==
    Scalars
    \cup {UntypedNil, GoVal("struct", "{}"), GoVal("chan", "ch")}
    \cup {PtrTo(k, NilPtr) : k \in {"string", "int", "struct", "interface", "chan"}}
    \cup {PtrTo("string", "test"), PtrTo("int", "123"), PtrTo("struct", "{}"),
          PtrTo("chan", "ch")}

\* a starlark.Value: its type t and value v; a Go* wrapper holds the
\* reflect.Value it wraps (kind, elem, v); a Tuple holds its items
SV(t, v) == [t |-> t, v |-> v, kind |-> "", elem |-> "", items |-> <<>>]

None == SV("NoneType", "None")

\* a nil starlark.Value interface (not None)
NilValue == SV("nil", "")

Bool(b) == SV("Bool", b)

MakeInt64(n) == SV("Int", n)

\* an unsigned value read as a signed one of the same 64 bits
MakeUint64Signed(n) ==
    SV("Int", CASE n = "2^63" -> "-2^63"
                [] n = "2^64-1" -> "-1"
                [] OTHER -> n)

MakeUint64(n) == SV("Int", n)

Float(x) == SV("Float", x)

String(x) == SV("String", x)

Tuple(items) == [t |-> "Tuple", v |-> "", kind |-> "", elem |-> "", items |-> items]

Wrapper(t, val) == [t |-> t, v |-> val.val, kind |-> val.kind, elem |-> val.elem,
                    items |-> <<>>]

\* the outcome of a conversion
Converted(v) == [val |-> v, err |-> NoErr]

NotConverted(err) == [val |-> NilValue, err |-> err]

\* toValue, for values of types without methods that are not starlark
\* values themselves (the %T of the message is carried as kind and elem)
toValue(val) ==
    LET deref == val.kind = "ptr" /\ val.val # NilPtr
                 /\ val.elem \in {"bool", "string"} \cup FloatKinds \cup IntKinds
                                 \cup UintKinds \cup {"slice", "array", "map"}
        kind == IF val.kind = "ptr" /\ val.val # NilPtr THEN val.elem ELSE val.kind
        v == IF deref THEN GoVal(val.elem, val.val) ELSE val
    IN  IF val.kind = "ptr" /\ val.val = NilPtr /\ val.elem = "struct"
        THEN Converted(Wrapper("GoInterface", val))
        ELSE CASE kind = "bool" -> Converted(Bool(v.val))
               [] kind \in IntKinds -> Converted(MakeInt64(v.val))
               [] kind \in UintKinds -> Converted(MakeUint64(v.val))
               [] kind \in FloatKinds -> Converted(Float(v.val))
               [] kind = "string" -> Converted(String(v.val))
               [] kind = "struct" -> Converted(Wrapper("GoStruct", v))
               [] kind = "interface" -> Converted(Wrapper("GoInterface", v))
               \* a result of type error is of kind Interface, nil or not
               [] kind = "error" -> Converted(Wrapper("GoInterface", v))
               [] kind = "invalid" -> Converted(None)
               [] OTHER -> NotConverted(<<"type is not a supported starlark type",
                                          val.kind, val.elem>>)

\* starlark.Int.Int64 and Uint64: ok says whether the integer fits
FitsInt64(n) == Le("-2^63", n) /\ Le(n, "2^63-1")

FitsUint64(n) == Le("0", n) /\ Le(n, "2^64-1")

FromValueInt64Only(v) == GoVal("int64", v.v)

FromValueInt(v) ==
    IF FitsInt64(v.v) THEN GoVal("int64", v.v)
    ELSE IF FitsUint64(v.v) THEN GoVal("uint64", v.v)
    ELSE GoVal("big.Int", v.v)

\* a value FromValue has no case for, given up: nil (and an error) in
\* place of the value
PassThroughNil(v) == UntypedNil

\* default: return v. The interface{} returned holds the starlark.Value
\* itself: the same type and the same object
PassThrough(v) == [kind |-> "starlark.Value", elem |-> v.t, val |-> v.v]

FromValue(v) ==
    CASE v.t = "Bool" -> GoVal("bool", v.v)
      [] v.t = "Int" -> FromValueInt(v)
      [] v.t = "Float" -> GoVal("float64", v.v)
      [] v.t = "String" -> GoVal("string", v.v)
      [] v.t = "NoneType" -> UntypedNil
      [] v.t \in {"GoStruct", "GoInterface"} ->
            [kind |-> v.kind, elem |-> v.elem, val |-> v.v]
      [] OTHER -> PassThrough(v)

\* the values of a script that FromValue has no case for: a function
\* defined in the script, a builtin, a value of a type of the host's own
ScriptObjects == {SV("Function", "foo"), SV("Builtin", "len"), SV("customType", "c1")}

\* a starlark.StringDict, as its entries in the order of their names
Entry(name, v) == [name |-> name, val |-> v]

DictValues == {MakeInt64("123"), String("test"), None} \cup ScriptObjects

StringDicts ==
    {<<>>}
    \cup {<<Entry("foo", v)>> : v \in DictValues}
    \cup {<<Entry("foo", v), Entry("output", w)>> : v \in DictValues, w \in DictValues}

NamesOf(m) == {m[i].name : i \in 1..Len(m)}

At(m, k) == m[CHOOSE i \in 1..Len(m) : m[i].name = k].val

\* FromStringDict that leaves out the values FromValue has no case for
FromStringDictSkip(m) ==
    [k \in {n \in NamesOf(m) : At(m, n) \notin ScriptObjects} |-> FromValue(At(m, k))]

\* for k, v := range m { ret[k] = FromValue(v) }
FromStringDict(m) == [k \in NamesOf(m) |-> FromValue(At(m, k))]

FromTuple(args) == [i \in 1..Len(args) |-> FromValue(args[i])]

\* Go's == on two interface values holding scalars: same dynamic type and
\* equal values (a NaN equals nothing)
GoEqual(a, b) == a = b /\ ~(a.kind \in FloatKinds /\ a.val = "NaN")

\* the script integers handed to FromValue
ScriptInts == {MakeInt64(Numerals[i]) : i \in 1..Len(Numerals)}

(***************************************************************************)
(* MakeStarFn: Go functions wrapped as Starlark builtins.                  *)
(***************************************************************************)
\* the value a Go function panics with (not nil)
PanicValue == "boom"

\* a nil and a non-nil value of the error interface
ErrNil == GoVal("error", "nil")

ErrFailed == GoVal("error", "failed")

\* what the wrapped functions return besides the error: nothing, one
\* value, two or three; a chan is of no kind toValue converts; a function
\* may return an error, nil or not, ahead of its other results
OutLists ==
    {<<>>,
     <<ErrNil, GoVal("string", "test")>>,
     <<ErrFailed, GoVal("string", "test")>>,
     <<GoVal("int64", "1")>>,
     <<GoVal("chan", "ch")>>,
     <<GoVal("string", "test"), GoVal("int64", "1")>>,
     <<GoVal("int64", "1"), GoVal("chan", "ch")>>,
     <<GoVal("int64", "1"), GoVal("string", "test"), GoVal("int64", "123")>>}

\* every parameter of the wrapped functions is an int64, the variadic one
\* a ...int64
ParamType == "int64"

NoFn == [name |-> "", NumIn |-> 0, IsVariadic |-> FALSE, outs |-> <<>>, errLast |-> FALSE,
         does |-> ""]

\* the wrapped functions: their signature, and whether a call returns,
\* returns a non-nil error, or panics
Funcs ==
    {f \in [name : {"fn"}, NumIn : 0..MaxParams, IsVariadic : BOOLEAN,
            outs : OutLists, errLast : BOOLEAN,
            does : {"return", "fail", "panic"}] :
        /\ f.IsVariadic => f.NumIn >= 1
        /\ f.does = "fail" => f.errLast}

\* the positional arguments of a call
ArgLists == SeqsUpTo({None, MakeInt64("1"), String("test")}, MaxArgs)

\* where a run-time panic strikes a call, if it does: while the arguments
\* are converted, or while a result is converted
Faults == {"none", "args", "out"}

\* the []reflect.Value that gofn.Call returns
Results(fn) ==
    fn.outs \o (IF fn.errLast THEN <<IF fn.does = "fail" THEN ErrFailed ELSE ErrNil>>
                ELSE <<>>)

\* toValue with its deferred recover: a panic inside becomes an error
toValueRecover(val, faulty) ==
    IF faulty THEN NotConverted(<<"panic recovered", PanicValue>>) ELSE toValue(val)

FirstOf(S) == CHOOSE i \in S : \A j \in S : i <= j

\* the results handed to the script as they come, the error among them
makeOutNoSplit(out, faulty) ==
    IF Len(out) = 0 THEN Converted(None)
    ELSE Converted(Tuple([i \in 1..Len(out) |-> Wrapper("GoInterface", out[i])]))

\* makeOut that takes a non-nil error in any position for the failure of the
\* call (a variant the properties must tell apart)
makeOutAnyError(out, faulty) ==
    LET errs == {i \in 1..Len(out) : out[i].kind = "error" /\ out[i].val # "nil"} IN
      IF errs = {} THEN makeOutNoSplit(out, faulty)
      ELSE [val |-> None, err |-> <<out[FirstOf(errs)].val>>]

\* makeOut: a last result of type error is split off and becomes the error
\* of the call; what remains is None, one value, or a tuple
makeOut(out, faulty) ==
    IF Len(out) = 0 THEN Converted(None)
    ELSE LET last == out[Len(out)]
             isErr == last.kind = "error"
             err == IF isErr /\ last.val # "nil" THEN <<last.val>> ELSE NoErr
             rest == IF isErr THEN SubSeq(out, 1, Len(out) - 1) ELSE out
             cs == [i \in 1..Len(rest) |-> toValueRecover(rest[i], faulty /\ i = 1)]
             bad == {i \in 1..Len(rest) : cs[i].err # NoErr}
         IN  IF Len(rest) = 0 THEN [val |-> None, err |-> err]
             ELSE IF Len(rest) = 1
             THEN IF cs[1].err # NoErr THEN [val |-> None, err |-> cs[1].err]
                  ELSE [val |-> cs[1].val, err |-> err]
             ELSE IF bad # {} THEN [val |-> None, err |-> cs[FirstOf(bad)].err]
             ELSE [val |-> Tuple([i \in 1..Len(rest) |-> cs[i].val]), err |-> err]

\* convertReflectValue, for the kinds FromValue gives the arguments drawn:
\* nil, int64 and string (a string is neither assignable nor convertible
\* to an int64)
convertReflectValue(val, argT) ==
    IF val.kind = "invalid" THEN [val |-> GoVal(argT, "0"), err |-> NoErr]
    ELSE IF val.kind = argT THEN [val |-> val, err |-> NoErr]
    ELSE [val |-> UntypedNil, err |-> <<"expected type", argT, "got", val.kind>>]

\* how the body of a builtin ends: with what it returns, or in a panic
Returns(val, err, invoked, passed) ==
    [val |-> val, err |-> err, invoked |-> invoked, passed |-> passed, panic |-> ""]

Panics(pv, invoked, passed) ==
    [val |-> NilValue, err |-> NoErr, invoked |-> invoked, passed |-> passed, panic |-> pv]

\* out := gofn.Call(rvs); return makeOut(out)
CallAndReturn(fn, rvs, fault) ==
    IF fn.does = "panic" THEN Panics(PanicValue, TRUE, rvs)
    ELSE LET o == makeOut(Results(fn), fault = "out")
         IN  Returns(o.val, o.err, TRUE, rvs)

\* the loops that convert the arguments, then the call: the non-variadic
\* arguments first, then the rest, each appended to rvs in order
ConvertAndCall(fn, args, fault) ==
    LET vals == FromTuple(args)
        minArgs == IF fn.IsVariadic THEN fn.NumIn - 1 ELSE Len(vals)
        cv == [i \in 1..Len(vals) |-> convertReflectValue(vals[i], ParamType)]
        bad == {i \in 1..Len(vals) : cv[i].err # NoErr}
        head == [i \in 1..minArgs |-> cv[i].val]
        tail == [i \in 1..(Len(vals) - minArgs) |-> cv[minArgs + i].val]
    IN  IF fault = "args" /\ Len(vals) > 0 THEN Panics(PanicValue, FALSE, <<>>)
        ELSE IF bad # {}
        THEN Returns(None, <<"arg">> \o cv[FirstOf(bad)].err, FALSE, <<>>)
        ELSE CallAndReturn(fn, head \o tail, fault)

\* the deferred function left out: a panic goes on to the caller
NoRecover(name, r) == r

\* defer func() { if r := recover(); r != nil { ... } }()
Recover(name, r) ==
    IF r.panic # ""
    THEN [r EXCEPT !.val = None, !.err = <<"panic in func", name, r.panic>>, !.panic = ""]
    ELSE r

\* NumIn taken for a minimum whether or not the function is variadic
CheckArityAtLeast(fn, args) ==
    IF Len(args) < fn.NumIn THEN <<"expected at least args but got">> ELSE NoErr

\* the test of len(args) against NumIn (the counts of the messages are
\* left out)
CheckArity(fn, args) ==
    IF fn.IsVariadic
    THEN IF Len(args) < fn.NumIn - 1 THEN <<"expected at least args but got">> ELSE NoErr
    ELSE IF Len(args) # fn.NumIn THEN <<"expected args but got">> ELSE NoErr

makeVariadicStarFn(fn, args, fault) ==
    Recover(fn.name,
            IF CheckArity(fn, args) # NoErr
            THEN Returns(None, CheckArity(fn, args), FALSE, <<>>)
            ELSE ConvertAndCall(fn, args, fault))

makeStarFn(fn, args, fault) ==
    IF fn.IsVariadic THEN makeVariadicStarFn(fn, args, fault)
    ELSE Recover(fn.name,
                 IF CheckArity(fn, args) # NoErr
                 THEN Returns(None, CheckArity(fn, args), FALSE, <<>>)
                 ELSE ConvertAndCall(fn, args, fault))

(***************************************************************************)
(* GoStruct.AttrNames.  A struct type is its fields in the order they are  *)
(* declared and its methods in the order reflect lists them (by name);     *)
(* reflect lists exported methods only, and those with a pointer receiver  *)
(* only in the method set of the pointer type.                             *)
(***************************************************************************)
Field(name, exported, tag) == [name |-> name, exported |-> exported, tag |-> tag]

Method(name, exported, ptrRecv) == [name |-> name, exported |-> exported, ptrRecv |-> ptrRecv]

\* type contact struct { Name string; age int;
\*   PhoneNumber string `starlark:"phone"`; Secret int `starlark:"-"` }
ContactFields == <<Field("Name", TRUE, ""), Field("age", FALSE, ""),
                   Field("PhoneNumber", TRUE, "phone"), Field("Secret", TRUE, "-")>>

\* func (c contact) Foo(), (c *contact) Bar(), (c *contact) bar(), (c contact) foo()
ContactMethods == <<Method("Bar", TRUE, TRUE), Method("Foo", TRUE, FALSE),
                    Method("bar", FALSE, TRUE), Method("foo", FALSE, FALSE)>>

\* the elements of s at the positions in keep, in order
RECURSIVE Pick(_, _)
Pick(s, keep) ==
    IF s = <<>> THEN <<>>
    ELSE (IF Len(s) \in keep THEN Pick(SubSeq(s, 1, Len(s) - 1), keep) \o <<s[Len(s)]>>
          ELSE Pick(SubSeq(s, 1, Len(s) - 1), keep))

NoStruct == [ptr |-> FALSE, fields |-> <<>>, methods |-> <<>>]

\* the values wrapped by NewStruct: a struct with some of the fields and
\* methods of contact, or a pointer to one
StructValues ==
    {[ptr |-> p, fields |-> Pick(ContactFields, fk), methods |-> Pick(ContactMethods, mk)] :
        p \in BOOLEAN, fk \in SUBSET (1..Len(ContactFields)),
        mk \in SUBSET (1..Len(ContactMethods))}

\* the names of the methods reflect finds on the struct type (byPtr
\* FALSE) or on the pointer type (byPtr TRUE)
RECURSIVE MethodNames(_, _)
MethodNames(ms, byPtr) ==
    IF ms = <<>> THEN <<>>
    ELSE (IF ms[1].exported /\ (byPtr \/ ~ms[1].ptrRecv) THEN <<ms[1].name>> ELSE <<>>)
         \o MethodNames(Tail(ms), byPtr)

\* t.Field(i).Name for every field
GoFieldNames(fs) == [i \in 1..Len(fs) |-> fs[i].name]

\* GoStruct.AttrNames
AttrNames(st) ==
    IF st.ptr
    THEN MethodNames(st.methods, TRUE) \o GoFieldNames(st.fields)
         \o MethodNames(st.methods, FALSE)
    ELSE MethodNames(st.methods, FALSE) \o GoFieldNames(st.fields)

\* a script asks for the attributes of a struct (dir)
ConvAttrNames ==
    /\ conv.op = "AttrNames"
    /\ ~conv.done
    /\ conv' = [conv EXCEPT !.done = TRUE, !.out = AttrNames(conv.st)]
    /\ UNCHANGED <<cacheVars, viewVars, runVars, sliceVars, lockVars>>

(***************************************************************************)
(* The conversions at work: a behaviour draws one input and applies one    *)
(* conversion to it.                                                       *)
(***************************************************************************)
Pending(op, fn, args, fault, go) ==
    [op |-> op, fn |-> fn, args |-> args, fault |-> fault, go |-> go, dict |-> <<>>,
     st |-> NoStruct, done |-> FALSE, out |-> <<>>, err |-> NoErr, invoked |-> FALSE, passed |-> <<>>, panic |-> ""]

ConvInputs ==
    {Pending("call", fn, args, fault, UntypedNil) :
        fn \in Funcs, args \in ArgLists, fault \in Faults}
    \cup {Pending("ToValue", NoFn, <<>>, "none", v) : v \in GoValues}
    \cup {Pending("FromValue", NoFn, <<n>>, "none", UntypedNil) :
             n \in ScriptInts \cup ScriptObjects}
    \cup {[Pending("FromStringDict", NoFn, <<>>, "none", UntypedNil) EXCEPT !.dict = m] :
             m \in StringDicts}
    \cup {[Pending("AttrNames", NoFn, <<>>, "none", UntypedNil) EXCEPT !.st = st] :
             st \in StructValues}
    \cup {Pending("RoundTrip", NoFn, <<>>, "none", v) : v \in Scalars}

\* a script calls a wrapped function
CallStarFn ==
    /\ conv.op = "call"
    /\ ~conv.done
    /\ LET r == makeStarFn(conv.fn, conv.args, conv.fault)
       IN  conv' = [conv EXCEPT !.done = TRUE, !.out = r.val, !.err = r.err,
                                !.invoked = r.invoked, !.passed = r.passed,
                                !.panic = r.panic]
    /\ UNCHANGED <<cacheVars, viewVars, runVars, sliceVars, lockVars>>

ConvToValue ==
    /\ conv.op = "ToValue"
    /\ ~conv.done
    /\ LET r == toValue(conv.go)
       IN  conv' = [conv EXCEPT !.done = TRUE, !.out = r.val, !.err = r.err]
    /\ UNCHANGED <<cacheVars, viewVars, runVars, sliceVars, lockVars>>

ConvFromValue ==
    /\ conv.op = "FromValue"
    /\ ~conv.done
    /\ conv' = [conv EXCEPT !.done = TRUE, !.out = FromValue(conv.args[1])]
    /\ UNCHANGED <<cacheVars, viewVars, runVars, sliceVars, lockVars>>

\* FromValue(ToValue(v))
ConvRoundTrip ==
    /\ conv.op = "RoundTrip"
    /\ ~conv.done
    /\ LET r == toValue(conv.go)
       IN  conv' = [conv EXCEPT !.done = TRUE, !.err = r.err,
                                !.out = IF r.err = NoErr THEN FromValue(r.val)
                                        ELSE UntypedNil]
    /\ UNCHANGED <<cacheVars, viewVars, runVars, sliceVars, lockVars>>

\* the globals of a finished script are handed back to the host
ConvFromStringDict ==
    /\ conv.op = "FromStringDict"
    /\ ~conv.done
    /\ conv' = [conv EXCEPT !.done = TRUE, !.out = FromStringDict(conv.dict)]
    /\ UNCHANGED <<cacheVars, viewVars, runVars, sliceVars, lockVars>>

ConvNext ==
    \/ CallStarFn \/ ConvToValue \/ ConvFromValue \/ ConvRoundTrip \/ ConvFromStringDict
    \/ ConvAttrNames

(***************************************************************************)
(* GoSlice.Slice: x[start:end:step] on a GoSlice over a []int.             *)
(***************************************************************************)
\* what a GoSlice holds
Contents(w) == SubSeq(arrays[slices[w].arr], 1, slices[w].len)

signOf(i) == IF i = 0 THEN 0 ELSE IF i < 0 THEN -1 ELSE 1

\* the start and end the interpreter hands to Slice for a step: inside
\* [0, n] and start <= end going up, inside [-1, n-1] and end <= start
\* going down
Indices(n, step) ==
    IF step > 0 THEN {se \in (0..n) \X (0..n) : se[1] <= se[2]}
    ELSE {se \in (-1..(n - 1)) \X (-1..(n - 1)) : se[2] <= se[1]}

\* reflect.MakeSlice(typ, len, cap) panics unless typ is a slice type
MakeSlicePanic == "reflect.MakeSlice of non-slice type"

\* GoSlice.Slice(start, end, step) on the source
GoSliceSlice(start, end, step) ==
    /\ sliceOp.op = "none"
    /\ IF step = 1
       THEN \* MakeSlice(g.v.Type(), end-start, end-start), then reflect.Copy
            /\ arrays' = Append(arrays, SubSeq(arrays[slices.src.arr], start + 1, end))
            /\ slices' = [slices EXCEPT !.res = [arr |-> Len(arrays) + 1, len |-> end - start]]
            /\ sliceOp' = [op |-> "Slice", start |-> start, end |-> end, step |-> step,
                           panic |-> "", writes |-> 0]
       ELSE \* MakeSlice(g.v.Type().Elem(), 0, 0): the element type of a []int
            \* is int
            /\ sliceOp' = [op |-> "Slice", start |-> start, end |-> end, step |-> step,
                           panic |-> MakeSlicePanic, writes |-> 0]
            /\ UNCHANGED <<arrays, slices>>
    /\ UNCHANGED <<cacheVars, viewVars, runVars, convVars, lockVars>>

\* GoSlice.SetIndex(i, x) on the source or on the result of Slice
WriteThrough(w, i, x) ==
    /\ sliceOp.op # "none"
    /\ sliceOp.writes < MaxWrites
    /\ slices[w] # NoSlice
    /\ i < slices[w].len
    /\ arrays' = [arrays EXCEPT ![slices[w].arr][i + 1] = x]
    /\ sliceOp' = [sliceOp EXCEPT !.op = "SetIndex", !.writes = @ + 1]
    /\ UNCHANGED <<slices, cacheVars, viewVars, runVars, convVars, lockVars>>

SliceSliceNext ==
    \/ \E step \in (-MaxStep..MaxStep) \ {0} : \E se \in Indices(slices.src.len, step) :
          GoSliceSlice(se[1], se[2], step)
    \/ \E w \in {"src", "res"}, i \in 0..2, x \in {7, 8} : WriteThrough(w, i, x)

(***************************************************************************)
(* Run, Forget, Reset and load() against Starlight.mu and cache.cacheMu.   *)
(* A goroutine's load stack holds the script Run executes and, above it,   *)
(* the modules whose doLoad it is in; the load graph is the acyclic part   *)
(* of LoadsOf ("t" loads "c" and "d", "d" loads "c").  cycleCheck takes no *)
(* lock and is left out.                                                   *)
(***************************************************************************)
LockFiles == {"d", "t"}

LockNames == {"c", "d"}

Frame(m, e) == [m |-> m, e |-> e, ip |-> 1]

TopOf(g) == thr[g].st[Len(thr[g].st)]

\* the load statement the top frame of g is at
DepOf(g) == LoadsOf(TopOf(g).m)[TopOf(g).ip]

\* the stack of g with its top frame past the current load statement
Advance(st) == [st EXCEPT ![Len(st)].ip = @ + 1]

\* the host calls Run(f), Forget(f) or Reset()
BeginCall(g, call, f) ==
    /\ thr[g].call = "none"
    /\ ops < MaxOps
    /\ ops' = ops + 1
    /\ thr' = [thr EXCEPT ![g] = [NoCall EXCEPT !.call = call, !.pc = "lock", !.file = f]]
    /\ UNCHANGED <<mu, cacheMu, progs, cmap, ent, cacheVars, viewVars, runVars, convVars, sliceVars>>

\* s.mu.Lock(): the first statement of Forget and Reset, and of both locked
\* sections of Run
LockMu(g) ==
    /\ thr[g].pc \in {"lock", "lock2"}
    /\ mu = Free
    /\ mu' = g
    /\ thr' = [thr EXCEPT ![g].pc = IF thr[g].pc = "lock2" THEN "store"
                                     ELSE IF thr[g].call = "Run" THEN "lookup"
                                     ELSE "lockCache"]
    /\ UNCHANGED <<cacheMu, progs, cmap, ent, ops, cacheVars, viewVars, runVars, convVars, sliceVars>>

\* Run: p, ok := s.scripts[filename]; s.mu.Unlock()
RunLookup(g) ==
    /\ thr[g].pc = "lookup"
    /\ mu' = Free
    /\ thr' = [thr EXCEPT ![g] =
                 IF thr[g].file \in progs
                 THEN [@ EXCEPT !.pc = "exec", !.st = <<Frame(thr[g].file, 0)>>]
                 ELSE [@ EXCEPT !.pc = "read"]]
    /\ UNCHANGED <<cacheMu, progs, cmap, ent, ops, cacheVars, viewVars, runVars, convVars, sliceVars>>

\* Run: s.readFile and starlark.SourceProgram, no lock held
RunReadFile(g) ==
    /\ thr[g].pc = "read"
    /\ thr' = [thr EXCEPT ![g].pc = "lock2"]
    /\ UNCHANGED <<mu, cacheMu, progs, cmap, ent, ops, cacheVars, viewVars, runVars, convVars, sliceVars>>

\* Run: s.scripts[filename] = p; s.mu.Unlock()
RunStoreProg(g) ==
    /\ thr[g].pc = "store"
    /\ progs' = progs \cup {thr[g].file}
    /\ mu' = Free
    /\ thr' = [thr EXCEPT ![g].pc = "exec", ![g].st = <<Frame(thr[g].file, 0)>>]
    /\ UNCHANGED <<cacheMu, cmap, ent, ops, cacheVars, viewVars, runVars, convVars, sliceVars>>

\* the script reaches a load statement: s.load -> cache.Load -> c.get
ExecLoadStmt(g) ==
    /\ thr[g].pc = "exec"
    /\ TopOf(g).ip <= Len(LoadsOf(TopOf(g).m))
    /\ thr' = [thr EXCEPT ![g].pc = "lockCache"]
    /\ UNCHANGED <<mu, cacheMu, progs, cmap, ent, ops, cacheVars, viewVars, runVars, convVars, sliceVars>>

\* the script runs to its end: Run returns, or doLoad returns to get
ExecEnd(g) ==
    /\ thr[g].pc = "exec"
    /\ TopOf(g).ip > Len(LoadsOf(TopOf(g).m))
    /\ thr' = [thr EXCEPT ![g] = IF Len(thr[g].st) = 1 THEN NoCall ELSE [@ EXCEPT !.pc = "close"]]
    /\ UNCHANGED <<mu, cacheMu, progs, cmap, ent, ops, cacheVars, viewVars, runVars, convVars, sliceVars>>

\* c.cacheMu.Lock(): in get, and in remove and reset with s.mu held
LockCacheMu(g) ==
    /\ thr[g].pc = "lockCache"
    /\ cacheMu = Free
    /\ cacheMu' = g
    /\ thr' = [thr EXCEPT ![g].pc = "inCache"]
    /\ UNCHANGED <<mu, progs, cmap, ent, ops, cacheVars, viewVars, runVars, convVars, sliceVars>>

\* get that keeps cacheMu when it finds an entry (a variant the properties
\* must tell apart)
GetInCacheHolding(g) ==
    /\ thr[g].call = "Run"
    /\ thr[g].pc = "inCache"
    /\ IF cmap[DepOf(g)] # 0
       THEN /\ thr' = [thr EXCEPT ![g].pc = "wait", ![g].w = cmap[DepOf(g)]]
            /\ UNCHANGED <<cacheMu, cmap, ent>>
       ELSE /\ ent' = Append(ent, [module |-> DepOf(g), ready |-> FALSE])
            /\ cmap' = [cmap EXCEPT ![DepOf(g)] = Len(ent) + 1]
            /\ cacheMu' = Free
            /\ thr' = [thr EXCEPT ![g].pc = "exec",
                                  ![g].st = Append(@, Frame(DepOf(g), Len(ent) + 1))]
    /\ UNCHANGED <<mu, progs, ops, cacheVars, viewVars, runVars, convVars, sliceVars>>

\* get with cacheMu held: e := c.cache[module]; on a hit unlock and go on to
\* <-e.ready, on a miss insert a new entry, unlock and go on to doLoad
GetInCache(g) ==
    /\ thr[g].call = "Run"
    /\ thr[g].pc = "inCache"
    /\ cacheMu' = Free
    /\ IF cmap[DepOf(g)] # 0
       THEN /\ thr' = [thr EXCEPT ![g].pc = "wait", ![g].w = cmap[DepOf(g)]]
            /\ UNCHANGED <<cmap, ent>>
       ELSE /\ ent' = Append(ent, [module |-> DepOf(g), ready |-> FALSE])
            /\ cmap' = [cmap EXCEPT ![DepOf(g)] = Len(ent) + 1]
            /\ thr' = [thr EXCEPT ![g].pc = "exec",
                                  ![g].st = Append(@, Frame(DepOf(g), Len(ent) + 1))]
    /\ UNCHANGED <<mu, progs, ops, cacheVars, viewVars, runVars, convVars, sliceVars>>

\* get: <-e.ready; return e.globals, e.err
GetWait(g) ==
    /\ thr[g].pc = "wait"
    /\ ent[thr[g].w].ready
    /\ thr' = [thr EXCEPT ![g].pc = "exec", ![g].w = 0, ![g].st = Advance(@)]
    /\ UNCHANGED <<mu, cacheMu, progs, cmap, ent, ops, cacheVars, viewVars, runVars, convVars, sliceVars>>

\* get: close(e.ready); return e.globals, e.err
GetClose(g) ==
    /\ thr[g].pc = "close"
    /\ ent' = [ent EXCEPT ![TopOf(g).e].ready = TRUE]
    /\ thr' = [thr EXCEPT ![g].pc = "exec",
                          ![g].st = Advance(SubSeq(@, 1, Len(@) - 1))]
    /\ UNCHANGED <<mu, cacheMu, progs, cmap, ops, cacheVars, viewVars, runVars, convVars, sliceVars>>

\* cache.remove or cache.reset with cacheMu held: delete; c.cacheMu.Unlock()
EvictInCache(g) ==
    /\ thr[g].call \in {"Forget", "Reset"}
    /\ thr[g].pc = "inCache"
    /\ cmap' = IF thr[g].call = "Reset" THEN [m \in Modules |-> 0]
               ELSE [cmap EXCEPT ![thr[g].file] = 0]
    /\ cacheMu' = Free
    /\ thr' = [thr EXCEPT ![g].pc = "unlock"]
    /\ UNCHANGED <<mu, progs, ent, ops, cacheVars, viewVars, runVars, convVars, sliceVars>>

\* Forget: delete(s.scripts, filename); Reset: a new s.scripts (which in the
\* code precedes cache.reset); then s.mu.Unlock()
EvictUnlock(g) ==
    /\ thr[g].pc = "unlock"
    /\ progs' = IF thr[g].call = "Reset" THEN {} ELSE progs \ {thr[g].file}
    /\ mu' = Free
    /\ thr' = [thr EXCEPT ![g] = NoCall]
    /\ UNCHANGED <<cacheMu, cmap, ent, ops, cacheVars, viewVars, runVars, convVars, sliceVars>>

\* the next step of goroutine g inside its call
LockStep(g) ==
    \/ LockMu(g)
    \/ RunLookup(g)
    \/ RunReadFile(g)
    \/ RunStoreProg(g)
    \/ ExecLoadStmt(g)
    \/ ExecEnd(g)
    \/ LockCacheMu(g)
    \/ GetInCache(g)
    \/ GetWait(g)
    \/ GetClose(g)
    \/ EvictInCache(g)
    \/ EvictUnlock(g)

LockNext ==
    \/ \E g \in Callers, f \in LockFiles : BeginCall(g, "Run", f)
    \/ \E g \in Callers, f \in LockNames : BeginCall(g, "Forget", f)
    \/ \E g \in Callers : BeginCall(g, "Reset", "")
    \/ \E g \in Callers : LockStep(g)

\* the module cache at work, the Views at rest
InitCache == Init /\ hosted = "map"

SpecCache == InitCache /\ [][CacheNext]_vars

\* concurrent loads on an acyclic load graph
SpecAcyclic == InitCache /\ [][AcyclicNext]_vars

\* three concurrent loads; the scheduler runs every goroutine that can take
\* a step: one parked on <-e.ready can take none until the channel is closed
SpecWalk == InitCache /\ [][WalkNext]_vars /\ \A g \in Goroutines : WF_vars(Step(g))

\* loads and evictions; the scheduler runs every goroutine that can take a
\* step, the host evicts when it likes
SpecEvict == InitCache /\ [][EvictNext]_vars /\ \A g \in Callers : WF_vars(Step(g))

InitLocks == Init /\ hosted = "map"

\* the calls against the two mutexes.  A goroutine that can take a step is
\* scheduled; one in Lock() can take none while the mutex is held, and with
\* finitely many calls no mutex is taken from it for ever
SpecLocks == InitLocks /\ [][LockNext]_vars /\ \A g \in Callers : WF_vars(LockStep(g))

\* the Views at work, the module cache at rest
SpecView == Init /\ [][ViewNext]_vars

\* two Views of the host's map at work
InitAlias == Init /\ hosted = "map"

SpecAlias == InitAlias /\ [][AliasNext]_vars

\* the script at work on a slice; the interpreter runs the builtin it is in
InitSeq == Init /\ hosted = "slice"

SpecSeq == InitSeq /\ [][SeqNext]_vars /\ WF_vars(ExtendRun)

\* the runner at work
InitRun == Init /\ hosted = "map"

SpecRun == InitRun /\ [][RunNext]_vars

\* the runner at work on missing and broken files
InitFail == Init /\ hosted = "map"

SpecFail == InitFail /\ [][FailNext]_vars

\* the conversions at work
InitConv == CacheInit /\ ViewInit /\ RunInit /\ SliceInit /\ LockInit /\ hosted = "map" /\ conv \in ConvInputs

SpecConv == InitConv /\ [][ConvNext]_vars

\* Slice at work
InitSlice == Init /\ hosted = "map"

SpecSlice == InitSlice /\ [][SliceSliceNext]_vars

(***************************************************************************)
(* Properties of the module cache.                                         *)
(***************************************************************************)
RECURSIVE ReachN(_, _)
ReachN(S, n) == IF n = 0 THEN S ELSE ReachN(S \cup UNION {Deps(x) : x \in S}, n - 1)

\* the modules that lie on a cycle of the load graph
CycleModules == {x \in Modules : x \in ReachN(Deps(x), Cardinality(Modules))}

OnCycle(m) == m \in CycleModules

\* g is parked on <-e.ready and e has not been closed
Blocked(g) == ~Idle(g) /\ Top(g).pc = "wait" /\ ~entry[Top(g).e].ready

\* C1: as long as nothing has been evicted, doLoad runs at most once per
\* module however many goroutines ask for it, and all top-level Load calls of
\* one module return the same namespace and the same error.
C1_LoadOnce ==
    evictions = 0 =>
        /\ \A m \in Modules : loadCount[m] <= 1
        /\ \A r1, r2 \in returned :
               r1.module = r2.module => r1.globals = r2.globals /\ r1.err = r2.err

\* two calls of one module have returned, the second issued while the first
\* was still loading it
C1_Witness ==
    /\ evictions = 0
    /\ \E r1, r2 \in returned :
          /\ r1.module = r2.module /\ r1.found = "new" /\ r2.found = "loading"
          /\ r1.globals # NoGlobals /\ r2.globals = r1.globals

\* C2: a goroutine that is the only one inside Load is never parked on an
\* entry that is not ready, and every top-level Load of a module on a load
\* cycle returns a load-cycle error.
C2_CycleError ==
    /\ \A g \in Goroutines :
          (\A h \in Goroutines \ {g} : Idle(h)) => ~Blocked(g)
    /\ \A r \in returned : OnCycle(r.module) => IsCycleError(r.err)

\* Load("a"), Load("b") and Load("s") have each returned as the first
\* request for its module
C2_Witness ==
    \E g \in Goroutines :
        /\ \A h \in Goroutines : Idle(h)
        /\ \A h \in Goroutines \ {g} : calls[h] = 0
        /\ \E r \in returned : r.module \in {"a", "b", "s"} /\ r.found = "new"
                                 /\ IsCycleError(r.err)
        /\ calls[g] = 1

\* C3: no set of goroutines is left parked for ever on each other's entries:
\* there is never a set of blocked goroutines each of which waits for an
\* entry that is owned by a member of the set.
C3_NoWaitCycle ==
    ~ \E S \in SUBSET Goroutines :
        /\ S # {}
        /\ \A g \in S : /\ Blocked(g)
                         /\ \E h \in S : entry[Top(g).e].owner = Me(h)

\* C4: a ready entry never changes again; a Load that finds a ready entry
\* returns that entry's namespace and error, and no step of such a call
\* reads a file or allocates an entry.
C4_ReadyTerminal ==
    [][/\ \A e \in DOMAIN entry : entry[e].ready => entry'[e] = entry[e]
       /\ \A r \in returned' \ returned :
             r.found = "ready" =>
                 r.globals = entry[r.e].globals /\ r.err = entry[r.e].err
       /\ \A g \in Goroutines :
             (~Idle(g) /\ stack[g][1].found = "ready" /\ stack'[g] # stack[g]) =>
                 loadCount' = loadCount /\ Len(entry') = Len(entry)]_vars

\* a Load that found its entry ready has returned that entry's namespace
C4_Witness ==
    \E r \in returned : r.found = "ready" /\ r.globals # NoGlobals
                         /\ r.globals = entry[r.e].globals

(***************************************************************************)
(* Properties of the Views.                                                *)
(***************************************************************************)
MapMutators == {"SetKey", "pop", "Clear", "update"}

SliceMutators == {"SetIndex", "append", "extend", "insert", "remove", "pop", "clear"}

\* the call o was a mutating call through a map or slice View
Mutating(o) ==
    \/ o.view \in MapViews /\ o.op \in MapMutators
    \/ o.view \in SliceViews /\ o.op \in SliceMutators

\* the step has left the host's container and the View's header as they were
ContainerSame ==
    /\ hostMap' = hostMap
    /\ hostArr' = hostArr
    /\ hostLen' = hostLen
    /\ hdr' = hdr

\* the verb checkMutable is given by each slice operation
VerbOf(op) ==
    CASE op = "SetIndex" -> "assign to"
      [] op = "append"   -> "append to"
      [] op = "extend"   -> "extend"
      [] op = "insert"   -> "insert into"
      [] op = "remove"   -> "remove from"
      [] op = "pop"      -> "pop from"
      [] OTHER           -> "clear"

\* the 'during iteration' error that belongs to the call o
IterationError(o) ==
    IF o.view \in SliceViews
    THEN <<"cannot " \o VerbOf(o.op) \o " slice during iteration">>
    ELSE CASE o.op = "SetKey" -> <<"cannot insert into map during iteration">>
           [] o.op = "pop"    -> <<"cannot delete from map during iteration">>
           [] o.op = "update" -> <<"update: ", "cannot insert into map during iteration">>
           [] OTHER           -> <<"cannot clear map during iteration">>

\* C5 (as stated): once a View is frozen, every mutating call through it
\* fails and leaves the container as it was.
C5_FrozenRejects ==
    [][\A v \in Views :
          (view[v].frozen /\ lastOp'.view = v /\ Mutating(lastOp')) =>
              (lastOp'.err # NoError /\ ContainerSame)]_vars

\* C5 (amended): once a View is frozen, every mutating call through it
\* leaves the container as it was, and it fails unless it is an update that
\* carries no pair.
C5_FrozenRejectsPairs ==
    [][\A v \in Views :
          (view[v].frozen /\ lastOp'.view = v /\ Mutating(lastOp')) =>
              /\ ContainerSame
              /\ ~(lastOp'.op = "update" /\ lastOp'.n = 0) => lastOp'.err # NoError]_vars

\* an update with a pair has been rejected by a frozen map View
C5_Witness ==
    \E v \in MapViews :
        /\ view[v].frozen
        /\ lastOp = Op("update", v, <<IntVal(2), IntVal(2)>>,
                       <<"update: ", "cannot insert into frozen map">>)
        /\ hostMap = [k \in Keys |-> 1]

C7_HostObserves ==
    [][/\ \A x \in ScriptVals :
             StructSetField("p", "Age", x) =>
                 lastOp'.err = NoError /\ hostStruct'.Age = Conv(x)
       /\ \A v \in MapViews, k \in ScriptKeys, x \in ScriptVals :
             (MapSetKey(v, k, x) /\ lastOp'.err = NoError) =>
                 Conv(k) \in DOMAIN hostMap' /\ hostMap'[Conv(k)] = Conv(x)
       /\ \A v \in MapViews, pairs \in PairLists :
             (MapUpdate(v, pairs) /\ lastOp'.err = NoError /\ pairs # <<>>) =>
                 /\ \A j \in 1..(Len(pairs) \div 2) :
                       Conv(pairs[2 * j - 1]) \in DOMAIN hostMap'
                 /\ hostMap'[Conv(pairs[Len(pairs) - 1])] = Conv(pairs[Len(pairs)])
       /\ \A v \in MapViews, k \in ScriptKeys, d \in BOOLEAN :
             (MapPop(v, k, d) /\ lastOp'.err = NoError) =>
                 Conv(k) \notin DOMAIN hostMap']_vars

\* the host's struct holds the value a script assigned through the pointer View
C7_Witness ==
    /\ lastOp = Op("SetField", "p", <<IntVal(2)>>, NoError)
    /\ hostStruct.Age = 2

\* C8 (as stated): after a successful mutating call through a slice View,
\* the host's slice holds what the View holds.
C8_HostObservesSlice ==
    [][\A v \in SliceViews :
          (lastOp'.view = v /\ Mutating(lastOp') /\ lastOp'.err = NoError) =>
              SubSeq(hostArr', 1, hostLen')
                  = SubSeq(IF hdr'[v].shared THEN hostArr' ELSE hdr'[v].priv, 1, hdr'[v].len)]_vars

C10_FreezeOneWay ==
    [][\A v \in Views : view[v].frozen => view'[v].frozen]_vars

\* a frozen View has been called again after its Freeze
C10_Witness ==
    \E v \in Views :
        /\ view[v].frozen
        /\ lastOp.view = v
        /\ Mutating(lastOp)

(***************************************************************************)
(* Properties of the runner.                                               *)
(***************************************************************************)
\* goroutine g enters Run in this step
Begins(g) == run[g].pc = "idle" /\ run'[g].pc # "idle"

\* C11 (as stated): the first Run(f) to begin after Forget(f) or Reset()
\* has returned goes to the file again, and what a Run reads is the content
\* of the file at that moment.
C11_ForgetRereads ==
    [][\A g \in Goroutines :
          /\ (Begins(g) /\ run'[g].file \in evicted) => run'[g].pc = "read"
          /\ (run[g].pc = "read" /\ run'[g].pc = "store") =>
                 run'[g].prog = disk[run[g].file]]_vars

\* C12: a Run(f) that begins while s.scripts holds a program for f (a Run(f)
\* has read, compiled and stored it, no Forget(f) or Reset() since) runs
\* that program, whatever the file holds now, with the globals of this call,
\* and never calls the file reader.
C12_CachedRunSkipsRead ==
    [][\A g \in Goroutines :
          /\ (Begins(g) /\ scripts[run'[g].file] # NoProgram) =>
                 /\ run'[g].pc = "exec"
                 /\ run'[g].cached
                 /\ run'[g].prog = scripts[run'[g].file]
          /\ run[g].cached => run[g].pc = "exec" /\ ~run[g].read
          /\ (run[g].cached /\ run'[g].pc = "idle") =>
                 /\ reads' = reads
                 /\ lastRun' = [file |-> run[g].file, gl |-> run[g].gl, prog |-> run[g].prog,
                                out |-> <<run[g].prog, run[g].gl>>, read |-> FALSE,
                                cached |-> TRUE, err |-> NoErr]
          /\ reads' # reads => \E h \in Goroutines : run[h].pc = "read" /\ ~run[h].cached]_vars

\* a Run by the second caller has run the cached program of a file that has
\* changed on disk since, with its own globals and without a read
C12_Witness ==
    /\ evictions = 0
    /\ lastRun.cached
    /\ ~lastRun.read
    /\ lastRun.file = "d"
    /\ lastRun.prog = 1
    /\ disk["d"] = 2
    /\ lastRun.out = <<1, 2>>
    /\ reads["d"] = 1

\* C13: Forget(f) empties s.scripts[f] and c.cache[f] and leaves the program
\* and the entry of every other name in place; Reset() empties both maps.
C13_ForgetFrame ==
    [][/\ \A f \in RunFiles :
             RunForget(f) =>
                 /\ scripts'[f] = NoProgram
                 /\ cache'[f] = NilEntry
                 /\ \A h \in RunFiles \ {f} : scripts'[h] = scripts[h]
                 /\ \A m \in Modules \ {f} : cache'[m] = cache[m]
                 /\ entry' = entry
       /\ RunReset =>
             /\ \A h \in RunFiles : scripts'[h] = NoProgram
             /\ \A m \in Modules : cache'[m] = NilEntry]_vars

\* Forget("d") has returned: the program of "c" and the entry of the module
\* "c" that "d" loaded are still cached
C13_Witness ==
    /\ "d" \in evicted
    /\ scripts["d"] = NoProgram
    /\ scripts["c"] # NoProgram
    /\ cache["c"] # NilEntry
    /\ entry[cache["c"]].ready

(***************************************************************************)
(* Properties of the wrapped functions and of the conversions.             *)
(***************************************************************************)
\* a call of a wrapped function that went through to the Go function and
\* came back from it, no panic anywhere
Called == conv.op = "call" /\ conv.done /\ conv.invoked /\ conv.fn.does # "panic"
          /\ conv.fault # "out"

\* every result besides the error is of a kind toValue converts
Convertible(fn) == \A i \in 1..Len(fn.outs) : toValue(fn.outs[i]).err = NoErr

C15_Arity ==
    conv.op = "call" /\ conv.done =>
        /\ ~conv.fn.IsVariadic /\ Len(conv.args) # conv.fn.NumIn =>
              ~conv.invoked /\ conv.err = <<"expected args but got">>
        /\ conv.fn.IsVariadic /\ Len(conv.args) < conv.fn.NumIn - 1 =>
              ~conv.invoked /\ conv.err = <<"expected at least args but got">>
        /\ conv.fn.IsVariadic /\ Len(conv.args) >= conv.fn.NumIn - 1 =>
              /\ conv.fault # "args" /\ (\A i \in 1..Len(conv.args) : conv.args[i].t # "String")
                    => conv.invoked
              /\ conv.invoked =>
                    /\ Len(conv.passed) = Len(conv.args)
                    /\ \A i \in 1..Len(conv.args) :
                          conv.passed[i] = GoVal("int64", IF conv.args[i] = None THEN "0"
                                                          ELSE conv.args[i].v)

\* a variadic function of two parameters got three arguments: the tail is
\* the second and the third, in order
C15_Witness ==
    /\ conv.op = "call" /\ conv.done /\ conv.invoked
    /\ conv.fn.IsVariadic /\ conv.fn.NumIn = 2
    /\ conv.args = <<MakeInt64("1"), MakeInt64("1"), None>>
    /\ conv.passed = <<GoVal("int64", "1"), GoVal("int64", "1"), GoVal("int64", "0")>>

Carries(err, pv) == \E i \in 1..Len(err) : err[i] = pv

\* C16: a panic (of a non-nil value) raised while a wrapped function is
\* called, be it while the arguments are converted, in the Go function or
\* while the results are converted, never reaches the caller of the script:
\* the call returns None and an error that carries the panic value.
C16_PanicRecovered ==
    conv.op = "call" /\ conv.done =>
        /\ conv.panic = ""
        /\ \/ conv.invoked /\ conv.fn.does = "panic"
           \/ conv.invoked /\ conv.fault = "out" /\ Len(conv.fn.outs) > 0
           \/ conv.fault = "args" /\ Len(conv.args) > 0 /\ CheckArity(conv.fn, conv.args) = NoErr
           => conv.out = None /\ Carries(conv.err, PanicValue)

\* the Go function panicked
C16_Witness ==
    /\ conv.op = "call" /\ conv.done /\ conv.invoked
    /\ conv.fn.does = "panic"
    /\ conv.out = None
    /\ conv.err = <<"panic in func", "fn", PanicValue>>

\* the round trip has been made on a scalar
Tripped == conv.op = "RoundTrip" /\ conv.done

\* the Go type a scalar comes back as
BackAs(v) ==
    CASE v.kind \in IntKinds -> "int64"
      [] v.kind \in UintKinds -> IF Le(v.val, "2^63-1") THEN "int64" ELSE "uint64"
      [] v.kind \in FloatKinds -> "float64"
      [] OTHER -> v.kind

\* C17: for every supported scalar Go value v (bool, string, every signed,
\* unsigned and floating-point width), FromValue(ToValue(v)) equals v as a
\* Go value: same type, same value.
C17_RoundTrip == Tripped => GoEqual(conv.out, conv.go)

\* C17 as amended: the round trip keeps the value of every scalar, and
\* gives back a bool as bool, a string as string, every signed integer and
\* every unsigned one up to 2^63-1 as int64, a larger unsigned one as
\* uint64, and every float as float64; so it gives back v itself when v is
\* a bool, a string, an int64, a uint64 above 2^63-1 or a float64 that is
\* not NaN.
C17_RoundTripValue ==
    Tripped =>
        /\ conv.err = NoErr
        /\ conv.out.val = conv.go.val
        /\ conv.out.kind = BackAs(conv.go)
        /\ conv.go.kind = BackAs(conv.go) /\ conv.go.val # "NaN" => GoEqual(conv.out, conv.go)

\* a uint64 beyond the signed range made the round trip and came back itself
C17_Witness ==
    /\ Tripped
    /\ conv.go = GoVal("uint64", "2^64-1")
    /\ conv.out = conv.go

\* C19: ToValue of an untyped nil, and of any typed nil pointer (a nil
\* *string, a nil pointer to a struct), returns None and no error.
C19_NilToNone ==
    /\ conv.op = "ToValue"
    /\ conv.done
    /\ conv.go = UntypedNil \/ (conv.go.kind = "ptr" /\ conv.go.val = NilPtr)
    => conv.out = None /\ conv.err = NoErr

\* C20: FromValue of a script integer n returns int64(n) when n fits in a
\* signed 64-bit integer, otherwise uint64(n) when n fits in an unsigned
\* 64-bit integer, otherwise an arbitrary-precision integer equal to n; the
\* value is never changed and the call never panics.
C20_FromValueInt ==
    conv.op = "FromValue" /\ conv.done /\ conv.args[1].t = "Int" =>
        LET n == conv.args[1].v
        IN  /\ conv.panic = ""
            /\ conv.out.val = n
            /\ conv.out.kind =
                  IF n \in Between("-2^63", "2^63-1") THEN "int64"
                  ELSE IF n \in Between("2^63", "2^64-1") THEN "uint64"
                  ELSE "big.Int"

\* an integer beyond 64 bits came back as an arbitrary-precision integer
C20_Witness ==
    /\ conv.op = "FromValue"
    /\ conv.done
    /\ \/ conv.args[1].v = "2^64" /\ conv.out = GoVal("big.Int", "2^64")
       \/ conv.args[1].v = "-2^63-1" /\ conv.out = GoVal("big.Int", "-2^63-1")

\* the elements at start, start+step, ... up to but excluding end
RECURSIVE Strided(_, _, _, _)
Strided(s, i, end, step) ==
    IF signOf(end - i) # signOf(step) THEN <<>>
    ELSE <<s[i + 1]>> \o Strided(s, i + step, end, step)

\* C18: Slice(start, end, step) on a Sequential View returns a new View
\* holding the elements at start, start+step, ... up to but excluding end,
\* and a later write through the source or through the result is never
\* visible in the other; for step 1 and for every other non-zero step.
C18_SliceIndependent ==
    [][/\ \A step \in (-MaxStep..MaxStep) \ {0} : \A se \in Indices(slices.src.len, step) :
            GoSliceSlice(se[1], se[2], step) =>
                /\ sliceOp'.panic = ""
                /\ slices'.res # NoSlice
                /\ Contents("res")' = Strided(Contents("src"), se[1], se[2], step)
       /\ \A i \in 0..2, x \in {7, 8} :
            /\ WriteThrough("src", i, x) /\ slices.res # NoSlice
                  => Contents("res")' = Contents("res")
            /\ WriteThrough("res", i, x) => Contents("src")' = Contents("src")]_vars

\* the same for step 1 alone, where Slice copies into a new array
SliceIndependentStepOne ==
    [][/\ \A se \in Indices(slices.src.len, 1) :
            GoSliceSlice(se[1], se[2], 1) =>
                /\ sliceOp'.panic = ""
                /\ Contents("res")' = Strided(Contents("src"), se[1], se[2], 1)
       /\ \A i \in 0..2, x \in {7, 8} :
            /\ WriteThrough("src", i, x) /\ slices.res # NoSlice
                  => Contents("res")' = Contents("res")
            /\ WriteThrough("res", i, x) => Contents("src")' = Contents("src")]_vars

\* the interface{} that holds the script value v itself
Same(v) == [kind |-> "starlark.Value", elem |-> v.t, val |-> v.v]

Exposed(f) == IF ~f.exported \/ f.tag = "-" THEN "" ELSE IF f.tag # "" THEN f.tag ELSE f.name

\* C23: AttrNames of an Aggregate View lists exactly the exported methods
\* and the exposed fields, each name once: unexported fields and fields
\* tagged '-' are absent, and a field with a tag name is listed under the
\* tag name and not under its native name.
C23_AttrNames ==
    conv.op = "AttrNames" /\ conv.done =>
        /\ {conv.out[i] : i \in 1..Len(conv.out)}
              = {conv.st.methods[i].name : i \in {j \in 1..Len(conv.st.methods) :
                       /\ conv.st.methods[j].exported
                       /\ conv.st.ptr \/ ~conv.st.methods[j].ptrRecv}}
                \cup ({Exposed(conv.st.fields[i]) : i \in 1..Len(conv.st.fields)} \ {""})
        /\ \A i, j \in 1..Len(conv.out) : conv.out[i] = conv.out[j] => i = j

\* C24: popitem is held back like every other map mutation: on a frozen
\* map View, or while an iterator over the View is open, it fails and
\* removes no entry.
C24_PopItemGuarded ==
    [][\A v \in MapViews :
          MapPopItem(v) /\ (view[v].frozen \/ view[v].numIt > 0) =>
              lastOp'.err # NoError /\ hostMap' = hostMap]_vars

(***************************************************************************)
(* Properties of the cache under concurrent loads and evictions.           *)
(***************************************************************************)
\* a load of m can come to a module that lies on a cycle of the load graph
ReachesCycle(m) == m \in {y \in Modules : ReachN({y}, Cardinality(Modules)) \cap CycleModules # {}}

\* every entry allocated so far is for a module whose loads form no cycle
AcyclicSoFar == \A e \in DOMAIN entry : ~ReachesCycle(entry[e].module)

\* C25: on an acyclic load graph no interleaving of concurrent top-level Load
\* calls makes a call fail with the "cycle in load graph" error.
C25_NoSpuriousCycle ==
    AcyclicSoFar => \A r \in returned : ~IsCycleError(r.err)

\* C26: when Forget(f) or Reset() ran while a Run(f) of another goroutine was
\* between reading the file and storing the program, a Run(f) that begins
\* after the Forget or Reset has returned does not run a program compiled
\* from what was read before it.
C26_NoStaleProgram ==
    [][\A g \in Goroutines :
          (Begins(g) /\ run'[g].cached) => run'[g].file \notin stale]_vars

\* the calls that created entry e and have not yet closed its ready channel,
\* each as <<goroutine, position in get>>
Loaders(e) ==
    UNION {{<<g, stack[g][i].pc>> :
               i \in {j \in 1..Len(stack[g]) :
                        stack[g][j].e = e /\ stack[g][j].found = "new"}} : g \in Goroutines}

\* C28 (as stated): an entry in the cache map whose readiness has not been
\* signalled has an owner marker, that of the one top-level load that is
\* loading it; a ready entry has none.
C28_OwnerWhileLoading ==
    \A m \in Modules :
        cache[m] # NilEntry =>
            LET e == cache[m] IN
            IF entry[e].ready
            THEN entry[e].owner = NoCC
            ELSE /\ entry[e].owner # NoCC
                 /\ \E l \in Loaders(e) : Loaders(e) = {l} /\ entry[e].owner = Me(l[1])

\* C28 (amended): an entry whose readiness has not been signalled has exactly
\* one call loading it; its owner marker is that call's checker from
\* e.setOwner(cc) to e.setOwner(nil) and empty before and after; a ready
\* entry has no owner marker and no call loading it.
C28_OwnerMarker ==
    \A e \in DOMAIN entry :
        IF entry[e].ready
        THEN entry[e].owner = NoCC /\ Loaders(e) = {}
        ELSE \E l \in Loaders(e) :
                /\ Loaders(e) = {l}
                /\ entry[e].owner = IF l[2] \in {"exec", "clearOwner"} THEN Me(l[1]) ELSE NoCC

\* the cache map holds a ready entry, an entry its loader has marked, and an
\* entry another goroutine has inserted and not yet marked
C28_Witness ==
    \E m1, m2, m3 \in Modules :
        /\ cache[m1] # NilEntry /\ cache[m2] # NilEntry /\ cache[m3] # NilEntry
        /\ entry[cache[m1]].ready
        /\ ~entry[cache[m2]].ready /\ entry[cache[m2]].owner # NoCC
        /\ ~entry[cache[m3]].ready /\ entry[cache[m3]].owner = NoCC
        /\ \E g \in Goroutines : Loaders(cache[m2]) = {<<g, "exec">>}
        /\ \E g \in Goroutines : Loaders(cache[m3]) = {<<g, "setOwner">>}

\* g is inside the loop of cycleCheck
Walking(g) == ~Idle(g) /\ Top(g).pc \in {"checkOwner", "checkWaits"}

\* C29: every cycleCheck walk terminates under every interleaving of
\* concurrent loads: a goroutine inside the loop of cycleCheck leaves it.
C29_WalkTerminates == \A g \in Goroutines : Walking(g) ~> ~Walking(g)

\* g is parked on <-e.ready of an entry it found loading and that has been
\* removed from the map before it was ready
OrphanWait(g) ==
    /\ ~Idle(g)
    /\ Top(g).pc = "wait" /\ Top(g).found = "loading"
    /\ Top(g).e \in orphans

\* C30: when an entry is removed from the map while it is loading, every
\* goroutine parked on it is released once its owner has finished, and a call
\* that waited for an entry returns that entry's namespace and error.
C30_WaitersReleased ==
    /\ \A g \in Callers : OrphanWait(g) ~> ~OrphanWait(g)
    /\ [](\A r \in returned :
             r.found = "loading" =>
                 /\ entry[r.e].ready
                 /\ r.globals = entry[r.e].globals /\ r.err = entry[r.e].err)

\* a goroutine has come out of <-e.ready of an entry that was removed from
\* the map before it was ready, and is about to return the namespace the
\* owner produced
C30_Witness ==
    \E g \in Callers :
        /\ ~Idle(g)
        /\ Top(g).pc = "clearWaitsFor" /\ Top(g).found = "loading"
        /\ Top(g).e \in orphans
        /\ entry[Top(g).e].ready /\ entry[Top(g).e].globals # NoGlobals
        /\ cache[Top(g).module] # Top(g).e

\* g is inside Run, Forget or Reset
InCall(g) == thr[g].call # "none"

\* C27: Run, Forget, Reset and the loads of running scripts do not deadlock on
\* the runner mutex and the cache mutex: with an acyclic load graph and
\* scripts that terminate, every call returns.
C27_CallsReturn == \A g \in Callers : InCall(g) ~> ~InCall(g)

\* a call has returned, and now Forget or Reset holds the runner mutex and
\* asks for the cache mutex while a load inside a doLoad holds it
C27_Witness ==
    \E g, h \in Callers :
        /\ ops = MaxOps
        /\ thr[g].call \in {"Forget", "Reset"} /\ mu = g /\ thr[g].pc = "lockCache"
        /\ thr[h].call = "Run" /\ cacheMu = h /\ Len(thr[h].st) = 2

(***************************************************************************)
(* Properties of two Views of one map.                                     *)
(***************************************************************************)
\* the Views with an iterator open
Iterated == {iters[n].view : n \in DOMAIN iters}

\* C31: while an iterator is open on one View of the map, an insertion made
\* through another, unfrozen View of the same map is rejected with the
\* during-iteration error and leaves the map as it was
C31_AliasMutationRejected ==
    [][\A v \in MapAliases, k \in ScriptKeys, x \in ScriptVals :
          (/\ Iterated \ {v} # {}
           /\ ~view[v].frozen
           /\ MapSetKey(v, k, x))
          => /\ lastOp'.err = <<"cannot insert into map during iteration">>
             /\ hostMap' = hostMap]_vars

\* C33: an update call that fails on some pair leaves the map exactly as it
\* was before the call
C33_UpdateAllOrNothing ==
    [][\A v \in MapAliases, pairs \in LongPairLists :
          (MapUpdate(v, pairs) /\ lastOp'.err # NoError) => hostMap' = hostMap]_vars

\* C34: the frozen flag belongs to the View: Freeze on one View of the map
\* leaves the flag of the other alone; while one View is frozen, an insertion
\* through the other, unfrozen and not iterated, succeeds and stores the
\* value; and Get through any View, frozen or not, returns what the map holds
\* at the moment of the call
C34_FrozenPerView ==
    [][\A v \in MapAliases : \A w \in MapAliases \ {v} :
          /\ MapFreeze(v) => view'[w] = view[w]
          /\ \A k \in ScriptKeys, x \in ScriptVals :
                (/\ view[v].frozen /\ ~view[w].frozen /\ view[w].numIt = 0
                 /\ CanConv(k)
                 /\ MapSetKey(w, k, x))
                => /\ lastOp'.err = NoError
                   /\ hostMap' = MapPut(hostMap, Conv(k), Conv(x))
          /\ \A k \in ScriptKeys :
                (CanConv(k) /\ MapGet(v, k))
                => lastOp'.out = IF Conv(k) \in DOMAIN hostMap'
                                 THEN <<hostMap'[Conv(k)]>> ELSE <<>>]_vars

\* with one View frozen, an insertion through the other has just succeeded
C34_Witness ==
    /\ view["m1"].frozen /\ ~view["m2"].frozen
    /\ lastOp.op = "SetKey" /\ lastOp.view = "m2" /\ lastOp.err = NoError
    /\ 2 \in DOMAIN hostMap /\ hostMap[2] = 2

\* the elements of a sequence
Range(q) == {q[j] : j \in DOMAIN q}

\* C35: an iterator over the map yields only keys the map held when Iterate
\* was called, none of them twice, and by the time Next reports the end it
\* has yielded every one of them, whatever has been added to or removed from
\* the map since
C35_SnapshotKeys ==
    \A n \in DOMAIN iters :
        iters[n].view \in MapAliases =>
            LET it == iters[n] IN
              /\ Range(it.seen) \subseteq it.at
              /\ \A a, b \in DOMAIN it.seen : a # b => it.seen[a] # it.seen[b]
              /\ Len(it.seen) = it.i
              /\ ~ENABLED MapIterNext(n) => Range(it.seen) = it.at

\* an iterator has yielded a key that the map lost after Iterate
C35_Witness ==
    \E n \in DOMAIN iters :
        /\ iters[n].view \in MapAliases
        /\ iters[n].seen # <<>>
        /\ Range(iters[n].seen) = iters[n].at
        /\ iters[n].seen[Len(iters[n].seen)] \notin DOMAIN hostMap

\* C37: setdefault(k, d) through a frozen View, for a key of the map's key
\* type, leaves the map as it is; it returns the value under k without error
\* when the map holds k, and fails with "cannot insert into frozen map" when
\* it does not
C37_SetDefaultFrozen ==
    [][\A v \in MapAliases, k \in ScriptKeys, d \in ScriptVals :
          (view[v].frozen /\ CanConv(k) /\ MapSetDefault(v, k, d)) =>
              /\ hostMap' = hostMap
              /\ IF Conv(k) \in DOMAIN hostMap
                 THEN /\ lastOp'.err = NoError
                      /\ ~lastOp'.panic
                      /\ lastOp'.out = <<hostMap[Conv(k)]>>
                 ELSE lastOp'.err = <<"cannot insert into frozen map">>]_vars

\* setdefault through a frozen View has returned the value of a key the map holds
C37_Witness ==
    \E v \in MapAliases :
        /\ view[v].frozen
        /\ lastOp.op = "setdefault" /\ lastOp.view = v
        /\ lastOp.err = NoError /\ lastOp.out # <<>>

(***************************************************************************)
(* Properties of the script's statements on a slice.                       *)
(***************************************************************************)
\* C32: a call v.extend(v) that has entered its loop leaves it: the iterator
\* reaches the end of the slice and the call returns
C32_ExtendTerminates == Extending ~> ~Extending

\* C36 (as stated): on a slice View that is frozen or iterated, pop and
\* indexed assignment report the frozen or during-iteration error whatever
\* the index, inside [0:len) or not
C36_GuardBeforeBounds ==
    [][\A v \in SliceViews :
          (view[v].frozen \/ view[v].numIt > 0) =>
              /\ \A h \in BOOLEAN, i \in -1..MaxLen :
                    SlicePop(v, h, i) => lastOp'.err = checkMutable(v, "pop from")
              /\ \A i \in -MaxLen..MaxLen, x \in ScriptVals :
                    SliceAssign(v, i, x) => lastOp'.err = checkMutable(v, "assign to")]_vars

\* C36 (amended): pop and indexed assignment look at the index first: an
\* index outside [0:len) gets the index-out-of-range error whether or not
\* the View is frozen or iterated, and an index inside gets what checkMutable
\* says, the frozen or during-iteration error when a guard fails
C36_BoundsBeforeGuard ==
    [][\A v \in SliceViews :
          /\ \A h \in BOOLEAN, i \in -1..MaxLen :
                SlicePop(v, h, i) =>
                    LET j == IF h THEN i ELSE hdr[v].len - 1 IN
                      lastOp'.err = IF j < 0 \/ j >= hdr[v].len
                                    THEN <<"pop: index is out of range">>
                                    ELSE checkMutable(v, "pop from")
          /\ \A i \in -MaxLen..MaxLen, x \in ScriptVals :
                SliceAssign(v, i, x) =>
                    LET j == IF i < 0 THEN i + hdr[v].len ELSE i IN
                      lastOp'.err = IF j < 0 \/ j >= hdr[v].len
                                    THEN <<"index out of range">>
                                    ELSE checkMutable(v, "assign to")]_vars

\* a pop with an index outside [0:len) has got the index error from a frozen
\* View that still holds elements
C36_Witness ==
    \E v \in SliceViews :
        /\ view[v].frozen
        /\ hdr[v].len > 0
        /\ lastOp = Op("pop", v, <<IntVal(0)>>, <<"pop: index is out of range">>)

\* the place insert(index, x) puts x at in a slice of n elements: a negative
\* index counts from the end, and the result is brought into [0, n]
InsertAt(index, n) ==
    LET i == IF index < 0 THEN index + n ELSE index IN
      IF i < 0 THEN 0 ELSE IF i > n THEN n ELSE i

\* C40: a successful insert(index, x) on a View of n elements leaves n + 1
\* elements, x at the place the index names (from the end when negative,
\* brought into [0, n]), and the former elements around it in their order
C40_InsertPlaces ==
    [][\A v \in SliceViews, index \in -(MaxLen + 1)..(MaxLen + 1), x \in ScriptVals :
          (SliceInsert(v, index, x) /\ lastOp'.err = NoError) =>
              LET old == ViewSeq(v)
                  new == ViewSeq(v)'
                  n   == Len(old)
                  p   == InsertAt(index, n)
              IN
                /\ Len(new) = n + 1
                /\ new[p + 1] = Conv(x)
                /\ \A j \in 1..p : new[j] = old[j]
                /\ \A j \in (p + 1)..n : new[j + 1] = old[j]]_vars

\* an insert has succeeded and left three elements in the View
C40_Witness ==
    \E v \in SliceViews :
        /\ lastOp = Op("insert", v, <<IntVal(0), IntVal(2)>>, NoError)
        /\ ViewSeq(v) = <<1, 2, 1>>

(***************************************************************************)
(* Properties of Run on files that fail.                                   *)
(***************************************************************************)
\* C38: a Run whose file read or compilation fails returns the error and
\* leaves s.scripts as it was; the Run of the same file that follows a
\* failed one goes to the file again, unless another call has stored a
\* program that compiled, and never finds a stored failure
C38_FailureNotCached ==
    [][\A g \in Callers :
          /\ (RunRead(g) /\ ReadError(run[g].file) # NoErr) =>
                /\ scripts' = scripts
                /\ lastRun'.err = ReadError(run[g].file)
                /\ run'[g].pc = "idle"
          /\ \A f \in RunFiles, gl \in RunGlobals(g) :
                (lastRun.file = f /\ lastRun.err # NoErr /\ RunBegin(g, f, gl)) =>
                    IF scripts[f] = NoProgram
                    THEN run'[g].pc = "read"
                    ELSE scripts[f] > NoProgram /\ run'[g].prog = scripts[f]]_vars

\* a file that does not compile has been read a second time, and the Run
\* has failed again
C38_Witness ==
    /\ lastRun.err = <<"syntax error">>
    /\ reads[lastRun.file] >= 2
    /\ scripts[lastRun.file] = NoProgram

(***************************************************************************)
(* Properties of the results of wrapped functions.                         *)
(***************************************************************************)
\* the results of the call in conv that come before a last result of type error
DataResults ==
    LET out == Results(conv.fn) IN
      IF out # <<>> /\ out[Len(out)].kind = "error"
      THEN SubSeq(out, 1, Len(out) - 1) ELSE out

\* the call in conv has run a function that has returned, with an error
\* ahead of its last result, and nothing has panicked
ErrorAhead ==
    /\ conv.op = "call" /\ conv.done /\ conv.invoked
    /\ conv.fn.does # "panic" /\ conv.panic = "" /\ conv.fault = "none"
    /\ \E i \in DOMAIN DataResults : DataResults[i].kind = "error"

\* C39: when a wrapped function returns an error in a position other than
\* the last, nil or not, the call fails only if the last result is a non-nil
\* error, and the script gets the tuple of the results with the error, as a
\* GoInterface, in its position
C39_OnlyLastErrorFails ==
    ErrorAhead =>
        LET out  == Results(conv.fn)
            last == out[Len(out)]
        IN
          /\ conv.err = IF last.kind = "error" /\ last.val # "nil" THEN <<last.val>> ELSE NoErr
          /\ conv.out.t = "Tuple"
          /\ Len(conv.out.items) = Len(DataResults)
          /\ \A i \in DOMAIN DataResults :
                DataResults[i].kind = "error" =>
                    conv.out.items[i] = Wrapper("GoInterface", DataResults[i])

\* a function returning (error, string) has returned a non-nil error first,
\* and the call has not failed
C39_Witness ==
    /\ ErrorAhead
    /\ Results(conv.fn) = <<ErrFailed, GoVal("string", "test")>>
    /\ conv.err = NoErr

====
